---- MODULE Spec2Model ----
(***************************************************************************)
(* Model of the oro-kernel registry (reference-counted slab arena):       *)
(* Registry::insert / insert_permanent / get, Handle clone / drop and the  *)
(* lease / forget paths of RegistryAccess, run by several cores.           *)
(*                                                                         *)
(* usize values are kept in their two's-complement reading, so that        *)
(* usize::MAX is -1 and a fetch_sub on 0 yields -1.                        *)
(***************************************************************************)
EXTENDS Integers, Sequences, FiniteSets, TLC

\* ------------------------------------------------------------------ bounds
NumCores == 2
\* size_of::<MaybeUninit<ItemFrame<T>>>() of the item types Init chooses from:
\* a small frame, a frame larger than half a page, and (PageSize) a frame of
\* exactly one page
SmallSlotSize == 16
SlotSize == 2049
\* the registry never grows past this many slots in the model
MaxSlots == 2
\* pages of the small and of the large segment Init chooses from
SmallSegPages == 1
LargeSegPages == 4097
\* free pages of the page-frame allocator Init chooses from
PfaSmall == 2
PfaLarge == 4097
\* a clone or get is only started while fewer handles than this are held
MaxHeld == 2
\* map faults are injected at pages 0..MaxFaultPage
MaxFaultPage == 1
\* spinlocks of the lock model
NumLocks == 2
\* slots of the registry of list nodes, and payload handles a node can wrap
MaxNodes == 3
NumHandles == 3
\* registries that share the page-frame allocator
NumRegistries == 2
\* Handles owned by payloads, nested: the depth of forget_item_at activations
MaxNest == 2
\* rings created besides the root ring
MaxRings == 3

\* ------------------------------------------------------- program constants
PageSize == 4096
\* usize::MAX, the "no free slot" value of last_free_id
NoFree == -1

Cores == 1..NumCores
SlotSizes == {SmallSlotSize, SlotSize, PageSize}
Locks == 1..NumLocks
NodeIds == 1..MaxNodes
HandleIds == 1..NumHandles
\* Option::None of a Handle<Item<T>> field
NoNode == 0
SlotIds == 0..(MaxSlots - 1)

VARIABLES
    bk,            \* RegistryBookkeeping
    bk_owner,      \* cores owning the bookkeeping spinlock ({} when free)
    slots,         \* the ItemFrames of the segment, by id
    seg_pages,     \* pages in the segment's range
    slot_size,     \* size_of::<MaybeUninit<ItemFrame<T>>>()
    mapped_pages,  \* pages of the segment mapped so far (0..mapped_pages-1)
    pfa_free,      \* free pages of the page-frame allocator
    held,          \* Handles held by callers, per slot id
    pc,            \* per core: position inside insert / get
    op,            \* per core: locals of the operation in progress
    stack,         \* per core: forget_item_at activations (innermost last)
    asserts,       \* debug assertions that have failed so far
    owned,         \* UnfairSpinlock::owned, per lock
    int_enabled,   \* per core: the interrupt-enable flag
    guards,        \* per core: the UnfairSpinlockGuards it holds, oldest first
    lpc,           \* per core: position inside lock / try_lock / guard drop
    nodes,         \* the Items of the registry of list nodes, by id
    list,          \* a List: first, last, count
    order,         \* the nodes of the list in the order of their append
    it,            \* an ItemIter, what it was started on and what it yielded
    parsed,        \* the last from_str call: its input, its target and its result
    lock_owner,    \* registries sharing an allocator: the core owning each lock
    call,          \* per core: position inside an operation on one of them
    kernel         \* KernelState: the rings, the rings list, a create_ring call

regVars == <<bk, bk_owner, slots, seg_pages, slot_size, mapped_pages, pfa_free, held,
             pc, op, stack, asserts>>
lockVars == <<owned, int_enabled, guards, lpc>>
listVars == <<nodes, list, order, it>>
idVars == <<parsed>>
orderVars == <<lock_owner, call>>
kernelVars == <<kernel>>
vars == <<regVars, lockVars, listVars, idVars, orderVars, kernelVars>>

\* ------------------------------------------------------------------ state
\* a bookkeeping structure that counts one slot before any was handed out
RegistryBookkeepingNewCountOne ==
    [last_free_id |-> NoFree, total_count |-> 1, total_page_count |-> 0]

RegistryBookkeepingNew ==
    [last_free_id |-> NoFree, total_count |-> 0, total_page_count |-> 0]

\* memory of a slot that was never written
UninitFrame == [user_count |-> 0, kind |-> "uninit", parent |-> {}, next_free |-> NoFree]

\* a frame written without the item it was given
OccupiedFrameEmpty(count, item) ==
    [user_count |-> count, kind |-> "item", parent |-> {}, next_free |-> NoFree]

\* ItemFrame { maybe_item: MaybeItem { item }, user_count }
OccupiedFrame(count, item) ==
    [user_count |-> count, kind |-> "item", parent |-> item.parent, next_free |-> NoFree]

NoOp == [id |-> 0, ok |-> TRUE, err |-> "none", parent |-> {}]

\* no core is inside a call
LockIdle == [at |-> "idle", lock |-> 0, interrupt_state |-> FALSE, before |-> FALSE]

\* UnfairSpinlock::new for every lock; no guard exists
SpinlocksNew ==
    /\ owned = [l \in Locks |-> FALSE]
    /\ guards = [c \in Cores |-> <<>>]
    /\ lpc = [c \in Cores |-> LockIdle]

\* a slot of the node registry that holds no Item, and to which no caller
\* holds a Handle
FreeNode == [live |-> FALSE, in_list |-> FALSE, prev |-> NoNode, next |-> NoNode,
             handle |-> NoNode, held |-> 0]

\* no ItemIter exists
NoIter == [active |-> FALSE, current |-> NoNode, direction |-> "none",
           start |-> NoNode, out |-> <<>>]

\* an empty node registry and the List of create_list()
ListsNew ==
    /\ nodes = [n \in NodeIds |-> FreeNode]
    /\ list = [first |-> NoNode, last |-> NoNode, count |-> 0]
    /\ order = <<>>
    /\ it = NoIter

\* the registries that share one page-frame allocator, and their locks: the
\* allocator's spinlock and the bookkeeping spinlock of each registry
Registries == 1..NumRegistries
PfaLock == 0
NoCore == 0
NoCall == [at |-> "idle", op |-> "none", reg |-> 0, ok |-> TRUE, nest |-> <<>>]

\* every lock is free and no core is inside a call
NoCalls ==
    /\ lock_owner = [l \in {PfaLock} \cup Registries |-> NoCore]
    /\ call = [c \in Cores |-> NoCall]

\* the ids of the ring registry; 0 is the root ring's
RingIds == 0..MaxRings
\* Ring::id before create_ring has set it: usize::MAX
PlaceholderId == -1

\* a slot of the ring registry that holds no Ring
NoRing == [stored |-> FALSE, id |-> 0, parent |-> 0]
\* no create_ring call is in progress
NoRingCall == [at |-> "idle", parent |-> 0, ring |-> 0, failed |-> {}, result |-> "none"]

\* a KernelState without rings, whose allocator has `pages` free pages
KernelIdle(pages) ==
    [pfa |-> pages, rings |-> [i \in RingIds |-> NoRing], list |-> <<>>,
     call |-> NoRingCall]

\* no ID string has been parsed
NoParse == [s |-> <<>>, target |-> "none", result |-> "none", buf |-> <<>>]

Init ==
    /\ SpinlocksNew
    /\ ListsNew
    /\ parsed = NoParse
    /\ NoCalls
    /\ kernel = KernelIdle(0)
    /\ int_enabled = [c \in Cores |-> TRUE]
    /\ bk = RegistryBookkeepingNew
    /\ bk_owner = {}
    /\ slots = [i \in SlotIds |-> UninitFrame]
    /\ seg_pages \in {SmallSegPages, LargeSegPages}
    /\ slot_size \in SlotSizes
    /\ mapped_pages = 0
    /\ pfa_free \in (0..PfaSmall) \cup {PfaLarge}
    /\ held = [i \in SlotIds |-> 0]
    /\ pc = [c \in Cores |-> "idle"]
    /\ op = [c \in Cores |-> NoOp]
    /\ stack = [c \in Cores |-> <<>>]
    /\ asserts = {}

Min(S) == CHOOSE x \in S : \A y \in S : x <= y

\* A failed debug assertion of insert_permanent or forget_item_at and a read
\* of a union member the slot does not hold leave the registry in a state the
\* code does not define: the state is kept, the run is followed no further.
\* The assertion of lease_item_at is not recorded here; C5 states it.
Running == asserts = {}

Idle(c) == Running /\ pc[c] = "idle" /\ stack[c] = <<>>

\* ------------------------------------------------------------- spinlock
\* UnfairSpinlock: compare_exchange(false, true) on `owned`
LockFree == bk_owner = {}

\* ------------------------------------------------------------ segment
\* segment.range(): (low, high), low taken as 0
SegLow == 0
SegHigh == seg_pages * PageSize - 1

\* AddressSegment::map of the page `page_id` of the segment; `faults` are the
\* pages whose mapping fails for lack of an intermediate page table
MapResult(page_id, faults) ==
    IF SegLow + page_id * PageSize > SegHigh THEN "VirtOutOfRange"
    ELSE IF page_id < mapped_pages THEN "Exists"
    ELSE IF page_id \in faults THEN "OutOfMemory"
    ELSE "Ok"

\* the page loop without `pfa.free(page)` on a failed mapping
GrowPagesLeak(tpc, npc, faults) ==
    LET mapFail == {p \in ({tpc, seg_pages} \cup faults) :
                        p >= tpc /\ p < npc /\ MapResult(p, faults) # "Ok"}
        stop == Min(mapFail \cup {tpc + pfa_free, npc})
        oom == stop = tpc + pfa_free
    IN  [total_page_count |-> stop,
         pfa_free |-> pfa_free - (stop - tpc) - (IF stop = npc \/ oom THEN 0 ELSE 1),
         mapped_pages |-> mapped_pages + (stop - tpc),
         err |-> IF stop = npc THEN "none"
                 ELSE IF oom THEN "OutOfMemory"
                 ELSE MapResult(stop, faults)]

\* the page loop with total_page_count written once, after the last page
GrowPagesCountAtEnd(tpc, npc, faults) ==
    LET mapFail == {p \in ({tpc, seg_pages} \cup faults) :
                        p >= tpc /\ p < npc /\ MapResult(p, faults) # "Ok"}
        stop == Min(mapFail \cup {tpc + pfa_free, npc})
    IN  [total_page_count |-> IF stop = npc THEN npc ELSE tpc,
         pfa_free |-> pfa_free - (stop - tpc),
         mapped_pages |-> mapped_pages + (stop - tpc),
         err |-> IF stop = npc THEN "none"
                 ELSE IF stop = tpc + pfa_free THEN "OutOfMemory"
                 ELSE MapResult(stop, faults)]

\* The page loop of insert_permanent,
\*   for page_id in bk.total_page_count..new_page_count
\*       { allocate()?; map(page_id)?; bk.total_page_count += 1 }
\* by its outcome: it stops at the first page whose allocation or mapping
\* fails (allocation is tried first), or at new_page_count.
GrowPages(tpc, npc, faults) ==
    LET mapFail == {p \in ({tpc, seg_pages} \cup faults) :
                        p >= tpc /\ p < npc /\ MapResult(p, faults) # "Ok"}
        stop == Min(mapFail \cup {tpc + pfa_free, npc})
    IN  [total_page_count |-> stop,
         pfa_free |-> pfa_free - (stop - tpc),
         mapped_pages |-> mapped_pages + (stop - tpc),
         err |-> IF stop = npc THEN "none"
                 ELSE IF stop = tpc + pfa_free THEN "OutOfMemory"
                 ELSE MapResult(stop, faults)]

\* the page that holds the last byte, without the + 1
NewPageCountNoLast(byte_offset_end) == (byte_offset_end - 1) \div PageSize

\* byte_offset_end & !4095, then + 1
NewPageCount(byte_offset_end) ==
    (byte_offset_end - (byte_offset_end % PageSize)) + 1

\* a read of the union member `member` from a slot that does not hold it is
\* undefined behaviour
InvalidRead(slot, member) == IF slot.kind = member THEN {} ELSE {"ub"}

\* slot.maybe_item.next_free; reading it from a slot that holds no free-list
\* link yields whatever the bytes of the slot are
ReadNextFree(slot) ==
    IF slot.kind = "next_free" THEN {slot.next_free}
    ELSE {NoFree} \cup {i \in SlotIds : i < bk.total_count}

\* the fields of T that are Handles into this registry (Ring::parent), read
\* from a slot; a destroyed item still has its bytes, any other slot that
\* holds no item yields whatever its bytes are
ReadParent(slot) ==
    IF slot.kind \in {"item", "dropped"} THEN {slot.parent}
    ELSE {{}} \cup {{i} : i \in {j \in SlotIds : j < bk.total_count}}

\* the range check applied to the first byte of the slot instead of the last
RangeExceededAtStart(byte_offset_end) == SegLow + byte_offset_end - slot_size > SegHigh

\* (self.segment.range().0 + byte_offset_end - 1) > self.segment.range().1
RangeExceeded(byte_offset_end) == SegLow + byte_offset_end - 1 > SegHigh

\* the free-list branch test of insert_permanent
FreeListEmpty == bk.last_free_id = NoFree

\* user_count.fetch_sub(1) on the slots the dropped Handles `ids` refer to
FetchSub(s, ids) ==
    [i \in SlotIds |-> IF i \in ids THEN [s[i] EXCEPT !.user_count = @ - 1] ELSE s[i]]

\* debug_assert_ne!(last_user_count, 0) of forget_item_at
ForgetAsserts(s, ids) ==
    IF \E i \in ids : s[i].user_count = 0 THEN {"forget"} ELSE {}

\* the bookkeeping lock taken before the payload is dropped
ForgetStepsLockFirst == <<"lock", "destroy", "link">>

\* what forget_item_at does once last_user_count == 1, in program order
ForgetSteps == <<"destroy", "lock", "link">>

\* the slot freed by the drop that leaves one handle behind
ForgetFramesOffByOne(s, ids) ==
    IF \E i \in ids : s[i].user_count = 2
    THEN <<[id |-> CHOOSE i \in ids : s[i].user_count = 2, step |-> 1]>>
    ELSE <<>>

\* `if last_user_count == 1`: the activations that go on to free their slot
ForgetFrames(s, ids) ==
    IF \E i \in ids : s[i].user_count = 1
    THEN <<[id |-> CHOOSE i \in ids : s[i].user_count = 1, step |-> 1]>>
    ELSE <<>>

\* debug_assert_eq!(last_user_count, 0) of lease_item_at
LeaseAssertHolds(last_user_count) == last_user_count = 0

\* insert_permanent from `lock()` to its return value; the guards are still
\* held when the action ends (pc = "ins_ret").
InsertPermanent(c, parent, faults) ==
    /\ Idle(c)
    /\ LockFree
    /\ \A p \in parent : held[p] > 0
    /\ held' = [i \in SlotIds |-> IF i \in parent THEN held[i] - 1 ELSE held[i]]
    /\ bk_owner' = {c}
    /\ pc' = [pc EXCEPT ![c] = "ins_ret"]
    /\ IF FreeListEmpty
       THEN LET byte_offset == bk.total_count * slot_size
                byte_offset_end == byte_offset + slot_size
                new_page_count == NewPageCount(byte_offset_end)
                grown == IF new_page_count > bk.total_page_count
                         THEN GrowPages(bk.total_page_count, new_page_count, faults)
                         ELSE [total_page_count |-> bk.total_page_count,
                               pfa_free |-> pfa_free,
                               mapped_pages |-> mapped_pages,
                               err |-> "none"]
                id == bk.total_count
            IN  IF RangeExceeded(byte_offset_end)
                THEN /\ op' = [op EXCEPT ![c] = [id |-> 0, ok |-> FALSE,
                                                err |-> "VirtOutOfRange", parent |-> parent]]
                     /\ UNCHANGED <<bk, slots, pfa_free, mapped_pages, asserts>>
                ELSE /\ bk.total_count < MaxSlots
                     /\ pfa_free' = grown.pfa_free
                     /\ mapped_pages' = grown.mapped_pages
                     /\ IF grown.err # "none"
                        THEN /\ bk' = [bk EXCEPT !.total_page_count = grown.total_page_count]
                             /\ op' = [op EXCEPT ![c] = [id |-> 0, ok |-> FALSE,
                                                        err |-> grown.err, parent |-> parent]]
                             /\ UNCHANGED <<slots, asserts>>
                        ELSE /\ bk' = [bk EXCEPT !.total_page_count = grown.total_page_count,
                                                 !.total_count = @ + 1]
                             /\ slots' = [slots EXCEPT ![id] = OccupiedFrame(1, [parent |-> parent])]
                             /\ op' = [op EXCEPT ![c] = [id |-> id, ok |-> TRUE,
                                                        err |-> "none", parent |-> parent]]
                             /\ UNCHANGED asserts
       ELSE LET id == bk.last_free_id
                last_user_count == slots[id].user_count
            IN  /\ \E nf \in ReadNextFree(slots[id]) :
                       bk' = [bk EXCEPT !.last_free_id = nf]
                /\ asserts' = asserts \cup InvalidRead(slots[id], "next_free")
                                 \cup (IF last_user_count = 0 THEN {}
                                       ELSE {"insert_reuse"})
                /\ slots' = [slots EXCEPT ![id] =
                                OccupiedFrame(last_user_count + 1, [parent |-> parent])]
                /\ op' = [op EXCEPT ![c] = [id |-> id, ok |-> TRUE,
                                           err |-> "none", parent |-> parent]]
                /\ UNCHANGED <<pfa_free, mapped_pages>>
    /\ UNCHANGED <<seg_pages, slot_size, stack>>
    /\ UNCHANGED <<lockVars, listVars, idVars, orderVars, kernelVars>>

\* Registry::insert: the Handle is built from the id insert_permanent returns;
\* on Err the guards are released first and the rejected item is dropped last
InsertReturn(c) ==
    /\ Running
    /\ pc[c] = "ins_ret"
    /\ pc' = [pc EXCEPT ![c] = "idle"]
    /\ bk_owner' = bk_owner \ {c}
    /\ op' = [op EXCEPT ![c] = NoOp]
    /\ IF op[c].ok
       THEN /\ held' = [held EXCEPT ![op[c].id] = @ + 1]
            /\ UNCHANGED <<slots, stack, asserts>>
       ELSE /\ slots' = FetchSub(slots, op[c].parent)
            /\ stack' = [stack EXCEPT ![c] = @ \o ForgetFrames(slots, op[c].parent)]
            /\ asserts' = asserts \cup ForgetAsserts(slots, op[c].parent)
            /\ UNCHANGED held
    /\ UNCHANGED <<bk, seg_pages, slot_size, mapped_pages, pfa_free>>
    /\ UNCHANGED <<lockVars, listVars, idVars, orderVars, kernelVars>>

\* a clone that hands out a Handle without the fetch_add of lease_item_at
CloneNoLease(c, id) ==
    /\ Idle(c)
    /\ held[id] > 0
    /\ held[id] < MaxHeld
    /\ held' = [held EXCEPT ![id] = @ + 1]
    /\ UNCHANGED <<bk, bk_owner, slots, seg_pages, slot_size, mapped_pages, pfa_free, pc, op,
                   stack, asserts>>
    /\ UNCHANGED <<lockVars, listVars, idVars, orderVars, kernelVars>>

\* Handle::clone -> lease_item_at
Clone(c, id) ==
    /\ Idle(c)
    /\ held[id] > 0
    /\ held[id] < MaxHeld
    /\ slots' = [slots EXCEPT ![id].user_count = @ + 1]
    /\ UNCHANGED asserts
    /\ held' = [held EXCEPT ![id] = @ + 1]
    /\ UNCHANGED <<bk, bk_owner, seg_pages, slot_size, mapped_pages, pfa_free, pc, op, stack>>
    /\ UNCHANGED <<lockVars, listVars, idVars, orderVars, kernelVars>>

\* Handle::drop -> forget_item_at, up to the test of last_user_count
Drop(c, id) ==
    /\ Idle(c)
    /\ held[id] > 0
    /\ held' = [held EXCEPT ![id] = @ - 1]
    /\ slots' = FetchSub(slots, {id})
    /\ stack' = [stack EXCEPT ![c] = @ \o ForgetFrames(slots, {id})]
    /\ asserts' = asserts \cup ForgetAsserts(slots, {id})
    /\ UNCHANGED <<bk, bk_owner, seg_pages, slot_size, mapped_pages, pfa_free, pc, op>>
    /\ UNCHANGED <<lockVars, listVars, idVars, orderVars, kernelVars>>

\* the innermost forget_item_at activation of a core
Top(c) == stack[c][Len(stack[c])]
TopStep(c) == IF Top(c).step <= Len(ForgetSteps) THEN ForgetSteps[Top(c).step] ELSE "end"

\* the top activation has done its current step: it moves to the next one,
\* then the activations in `nested` run first
Advance(c, nested) ==
    [stack EXCEPT ![c] =
        SubSeq(@, 1, Len(@) - 1) \o <<[Top(c) EXCEPT !.step = @ + 1]>> \o nested]

\* ManuallyDrop::drop(&mut slot.maybe_item.item): T's drop glue drops the
\* Handles T owns, each through forget_item_at
ForgetDestroy(c) ==
    /\ Running
    /\ stack[c] # <<>>
    /\ TopStep(c) = "destroy"
    /\ \E parent \in ReadParent(slots[Top(c).id]) :
          LET dead == [slots EXCEPT ![Top(c).id].kind =
                           IF @ = "item" THEN "dropped" ELSE @]
          IN  /\ slots' = FetchSub(dead, parent)
              /\ stack' = Advance(c, ForgetFrames(dead, parent))
              /\ asserts' = asserts \cup ForgetAsserts(dead, parent)
                                 \cup InvalidRead(slots[Top(c).id], "item")
    /\ UNCHANGED <<bk, bk_owner, seg_pages, slot_size, mapped_pages, pfa_free, held, pc, op>>
    /\ UNCHANGED <<lockVars, listVars, idVars, orderVars, kernelVars>>

\* let mut bk = self.bookkeeping.lock()
ForgetLock(c) ==
    /\ Running
    /\ stack[c] # <<>>
    /\ TopStep(c) = "lock"
    /\ LockFree
    /\ bk_owner' = {c}
    /\ stack' = Advance(c, <<>>)
    /\ UNCHANGED <<bk, slots, seg_pages, slot_size, mapped_pages, pfa_free, held, pc, op, asserts>>
    /\ UNCHANGED <<lockVars, listVars, idVars, orderVars, kernelVars>>

\* the link written without making the slot the new head of the free list
ForgetLinkNoHead(c) ==
    /\ Running
    /\ stack[c] # <<>>
    /\ TopStep(c) = "link"
    /\ slots' = [slots EXCEPT ![Top(c).id].kind = "next_free",
                              ![Top(c).id].next_free = bk.last_free_id]
    /\ stack' = Advance(c, <<>>)
    /\ UNCHANGED <<bk, bk_owner, seg_pages, slot_size, mapped_pages, pfa_free, held, pc, op, asserts>>
    /\ UNCHANGED <<lockVars, listVars, idVars, orderVars, kernelVars>>

\* the free-list push that also gives the slot back by shrinking total_count
ForgetLinkShrinks(c) ==
    /\ Running
    /\ stack[c] # <<>>
    /\ TopStep(c) = "link"
    /\ slots' = [slots EXCEPT ![Top(c).id].kind = "next_free",
                              ![Top(c).id].parent = {},
                              ![Top(c).id].next_free = bk.last_free_id]
    /\ bk' = [bk EXCEPT !.last_free_id = Top(c).id, !.total_count = @ - 1]
    /\ stack' = Advance(c, <<>>)
    /\ UNCHANGED <<bk_owner, seg_pages, slot_size, mapped_pages, pfa_free, held, pc, op, asserts>>
    /\ UNCHANGED <<lockVars, listVars, idVars, orderVars, kernelVars>>

\* slot.maybe_item.next_free = bk.last_free_id; bk.last_free_id = id
ForgetLink(c) ==
    /\ Running
    /\ stack[c] # <<>>
    /\ TopStep(c) = "link"
    /\ slots' = [slots EXCEPT ![Top(c).id].kind = "next_free",
                              ![Top(c).id].parent = {},
                              ![Top(c).id].next_free = bk.last_free_id]
    /\ bk' = [bk EXCEPT !.last_free_id = Top(c).id]
    /\ stack' = Advance(c, <<>>)
    /\ UNCHANGED <<bk_owner, seg_pages, slot_size, mapped_pages, pfa_free, held, pc, op, asserts>>
    /\ UNCHANGED <<lockVars, listVars, idVars, orderVars, kernelVars>>

\* the block left with the guard leaked, so that the lock stays owned
ForgetEndKeepsLock(c) ==
    /\ Running
    /\ stack[c] # <<>>
    /\ TopStep(c) = "end"
    /\ stack' = [stack EXCEPT ![c] = SubSeq(@, 1, Len(@) - 1)]
    /\ UNCHANGED <<bk, bk_owner, slots, seg_pages, slot_size, mapped_pages, pfa_free, held, pc, op, asserts>>
    /\ UNCHANGED <<lockVars, listVars, idVars, orderVars, kernelVars>>

\* the end of the `if last_user_count == 1` block: the guard goes out of scope
ForgetEnd(c) ==
    /\ Running
    /\ stack[c] # <<>>
    /\ TopStep(c) = "end"
    /\ bk_owner' = bk_owner \ {c}
    /\ stack' = [stack EXCEPT ![c] = SubSeq(@, 1, Len(@) - 1)]
    /\ UNCHANGED <<bk, slots, seg_pages, slot_size, mapped_pages, pfa_free, held, pc, op, asserts>>
    /\ UNCHANGED <<lockVars, listVars, idVars, orderVars, kernelVars>>

\* Registry::get from `lock()` to the load of user_count
GetLock(c, id) ==
    /\ Idle(c)
    /\ LockFree
    /\ id \in SlotIds => held[id] < MaxHeld
    /\ bk_owner' = {c}
    /\ pc' = [pc EXCEPT ![c] =
                 IF id >= bk.total_count THEN "get_none"
                 ELSE IF slots[id].user_count = 0 THEN "get_none"
                 ELSE "get_inc"]
    /\ op' = [op EXCEPT ![c] = [id |-> id, ok |-> TRUE, err |-> "none", parent |-> {}]]
    /\ UNCHANGED <<bk, slots, seg_pages, slot_size, mapped_pages, pfa_free, held, stack, asserts>>
    /\ UNCHANGED <<lockVars, listVars, idVars, orderVars, kernelVars>>

\* Registry::get: `return None` / `None`
GetNone(c) ==
    /\ Running
    /\ pc[c] = "get_none"
    /\ bk_owner' = bk_owner \ {c}
    /\ pc' = [pc EXCEPT ![c] = "idle"]
    /\ op' = [op EXCEPT ![c] = NoOp]
    /\ UNCHANGED <<bk, slots, seg_pages, slot_size, mapped_pages, pfa_free, held, stack, asserts>>
    /\ UNCHANGED <<lockVars, listVars, idVars, orderVars, kernelVars>>

\* a get that adds two to the count of the slot it returns
GetIncTwice(c) ==
    /\ Running
    /\ pc[c] = "get_inc"
    /\ slots' = [slots EXCEPT ![op[c].id].user_count = @ + 2]
    /\ held' = [held EXCEPT ![op[c].id] = @ + 1]
    /\ bk_owner' = bk_owner \ {c}
    /\ pc' = [pc EXCEPT ![c] = "idle"]
    /\ op' = [op EXCEPT ![c] = NoOp]
    /\ UNCHANGED <<bk, seg_pages, slot_size, mapped_pages, pfa_free, stack, asserts>>
    /\ UNCHANGED <<lockVars, listVars, idVars, orderVars, kernelVars>>

\* Registry::get: fetch_add and Some(Handle { id, registry })
GetInc(c) ==
    /\ Running
    /\ pc[c] = "get_inc"
    /\ slots' = [slots EXCEPT ![op[c].id].user_count = @ + 1]
    /\ held' = [held EXCEPT ![op[c].id] = @ + 1]
    /\ bk_owner' = bk_owner \ {c}
    /\ pc' = [pc EXCEPT ![c] = "idle"]
    /\ op' = [op EXCEPT ![c] = NoOp]
    /\ UNCHANGED <<bk, seg_pages, slot_size, mapped_pages, pfa_free, stack, asserts>>
    /\ UNCHANGED <<lockVars, listVars, idVars, orderVars, kernelVars>>

\* the items a caller can build: with or without a Handle of this registry
Parents == {{}} \cup {{p} : p \in SlotIds}
FaultSets == {{}} \cup {{p} : p \in 0..MaxFaultPage}

Insert == \E c \in Cores, parent \in Parents, faults \in FaultSets :
              InsertPermanent(c, parent, faults)
InsertDone == \E c \in Cores : InsertReturn(c)
CloneHandle == \E c \in Cores, id \in SlotIds : Clone(c, id)
DropHandle == \E c \in Cores, id \in SlotIds : Drop(c, id)
Destroy == \E c \in Cores : ForgetDestroy(c)
Recycle == \E c \in Cores : ForgetLock(c) \/ ForgetLink(c) \/ ForgetEnd(c)
Get == \E c \in Cores, id \in 0..MaxSlots : GetLock(c, id)
GetDone == \E c \in Cores : GetInc(c) \/ GetNone(c)

\* insert, clone and drop only
NextICD == Insert \/ InsertDone \/ CloneHandle \/ DropHandle \/ Destroy \/ Recycle
SpecICD == Init /\ [][NextICD]_vars

Next == Insert \/ InsertDone \/ CloneHandle \/ DropHandle \/ Destroy \/ Recycle
           \/ Get \/ GetDone
Spec == Init /\ [][Next]_vars

\* one core alone; a core that is inside forget_item_at keeps executing it
Solo == CHOOSE c \in Cores : TRUE
NextSolo ==
    \/ \E parent \in Parents, faults \in FaultSets : InsertPermanent(Solo, parent, faults)
    \/ InsertReturn(Solo)
    \/ \E id \in SlotIds : Clone(Solo, id)
    \/ \E id \in SlotIds : Drop(Solo, id)
    \/ ForgetDestroy(Solo)
    \/ ForgetLock(Solo)
    \/ ForgetLink(Solo)
    \/ ForgetEnd(Solo)
ForgetStep(c) == ForgetDestroy(c) \/ ForgetLock(c) \/ ForgetLink(c) \/ ForgetEnd(c)
SpecSolo == Init /\ [][NextSolo]_vars /\ WF_vars(ForgetStep(Solo))

\* ------------------------------------------------------- insert_permanent
\* the id of the slot a direct call of insert_permanent creates at boot, when
\* the registry is still empty
PermanentId == 0

\* a direct call of insert_permanent on the empty registry; the item owns no
\* Handle of this registry, as none exists yet
InsertPermanentCall(c, faults) ==
    /\ bk.total_count = 0
    /\ InsertPermanent(c, {}, faults)

\* the return that hands the caller a Handle to the permanent slot
InsertPermanentReturnsHandle(c) ==
    /\ pc[c] = "ins_ret"
    /\ op[c].ok /\ op[c].id = PermanentId
    /\ InsertReturn(c)

\* Ok(id) of a direct call of insert_permanent: the guards are released, the
\* caller has the id and no Handle
InsertPermanentReturn(c) ==
    /\ Running
    /\ pc[c] = "ins_ret"
    /\ op[c].ok /\ op[c].id = PermanentId
    /\ pc' = [pc EXCEPT ![c] = "idle"]
    /\ bk_owner' = bk_owner \ {c}
    /\ op' = [op EXCEPT ![c] = NoOp]
    /\ UNCHANGED <<bk, slots, seg_pages, slot_size, mapped_pages, pfa_free, held, stack,
                   asserts>>
    /\ UNCHANGED <<lockVars, listVars, idVars, orderVars, kernelVars>>

\* Registry::insert once the permanent slot exists, and the Err return of
\* either call
InsertAfterBoot(c, parent, faults) ==
    /\ bk.total_count > 0
    /\ InsertPermanent(c, parent, faults)
InsertReturnOther(c) ==
    /\ pc[c] = "ins_ret"
    /\ ~(op[c].ok /\ op[c].id = PermanentId)
    /\ InsertReturn(c)

PermanentInsert == \E c \in Cores, faults \in FaultSets : InsertPermanentCall(c, faults)
PermanentDone == \E c \in Cores : InsertPermanentReturn(c)
LaterInsert == \E c \in Cores, parent \in Parents, faults \in FaultSets :
                   InsertAfterBoot(c, parent, faults)
LaterInsertDone == \E c \in Cores : InsertReturnOther(c)

\* unsafe { registry.get(id) } with the id insert_permanent returned
GetPermanent == \E c \in Cores : GetLock(c, PermanentId)

\* a permanent slot created at boot; then get of its id, and insert, clone
\* and drop of every handle there is
NextPermanent == PermanentInsert \/ PermanentDone \/ LaterInsert \/ LaterInsertDone
                    \/ CloneHandle \/ DropHandle \/ Destroy \/ Recycle
                    \/ GetPermanent \/ GetDone
SpecPermanent == Init /\ [][NextPermanent]_vars

\* ---------------------------------------------------------- Registry::new
\* what the memory that will hold the bookkeeping may contain before new
\* has written it
StaleBookkeeping ==
    {RegistryBookkeepingNew,
     [last_free_id |-> 0, total_count |-> 1, total_page_count |-> 1]}

\* before Registry::new: no core can use the registry; the segment is
\* unpopulated or has a page mapped already
InitNew ==
    /\ SpinlocksNew
    /\ ListsNew
    /\ parsed = NoParse
    /\ NoCalls
    /\ kernel = KernelIdle(0)
    /\ int_enabled = [c \in Cores |-> TRUE]
    /\ bk \in StaleBookkeeping
    /\ bk_owner = {}
    /\ slots = [i \in SlotIds |-> UninitFrame]
    /\ seg_pages \in {SmallSegPages, LargeSegPages}
    /\ slot_size \in SlotSizes
    /\ mapped_pages \in {0, 1}
    /\ pfa_free \in (0..PfaSmall) \cup {PfaLarge}
    /\ held = [i \in SlotIds |-> 0]
    /\ pc = [c \in Cores |-> "no_registry"]
    /\ op = [c \in Cores |-> NoOp]
    /\ stack = [c \in Cores |-> <<>>]
    /\ asserts = {}

\* segment.provision_as_shared(): Err(MapError::Exists) when the segment is
\* already populated
ProvisionAsShared == IF mapped_pages > 0 THEN "Exists" ELSE "Ok"

\* a new that drops the result of provision_as_shared instead of returning it
RegistryNewUnchecked(c) ==
    /\ \A d \in Cores : pc[d] = "no_registry"
    /\ bk' = RegistryBookkeepingNew
    /\ pc' = [d \in Cores |-> "idle"]
    /\ UNCHANGED <<bk_owner, slots, seg_pages, slot_size, mapped_pages, pfa_free, held,
                   op, stack, asserts>>
    /\ UNCHANGED <<lockVars, listVars, idVars, orderVars, kernelVars>>

\* Registry::new, called once at boot by core c:
\*   segment.provision_as_shared(..)?;
\*   Ok(Self { bookkeeping: UnfairCriticalSpinlock::new(RegistryBookkeeping::new()), .. })
\* On Ok the registry is available to all cores.
RegistryNew(c) ==
    /\ \A d \in Cores : pc[d] = "no_registry"
    /\ IF ProvisionAsShared = "Ok"
       THEN /\ bk' = RegistryBookkeepingNew
            /\ pc' = [d \in Cores |-> "idle"]
            /\ UNCHANGED op
       ELSE /\ pc' = [pc EXCEPT ![c] = "new_err"]
            /\ op' = [op EXCEPT ![c] = [id |-> 0, ok |-> FALSE,
                                       err |-> ProvisionAsShared, parent |-> {}]]
            /\ UNCHANGED bk
    /\ UNCHANGED <<bk_owner, slots, seg_pages, slot_size, mapped_pages, pfa_free, held,
                   stack, asserts>>
    /\ UNCHANGED <<lockVars, listVars, idVars, orderVars, kernelVars>>

New == \E c \in Cores : RegistryNew(c)

\* the registry from before its construction on: new, then insert, clone
\* and drop
NextNew == New \/ NextICD
SpecNew == InitNew /\ [][NextNew]_vars

\* ------------------------------------------------------- UnfairSpinlock
\* A guard: the lock it releases, the interrupt state it restores, and (for
\* the claims) the interrupt state of the core when the call was entered.
Guard(l, interrupt_state, before) ==
    [lock |-> l, interrupt_state |-> interrupt_state, before |-> before]

LockCallIdle(c) == lpc[c].at = "idle"

\* the guards of core c without its k-th
WithoutGuard(c, k) == SubSeq(guards[c], 1, k - 1) \o SubSeq(guards[c], k + 1, Len(guards[c]))

\* lock(): let interrupt_state = A::fetch_interrupts()
LockFetch(c, l) ==
    /\ LockCallIdle(c)
    /\ lpc' = [lpc EXCEPT ![c] = [at |-> "lock_fetched", lock |-> l,
                                  interrupt_state |-> int_enabled[c],
                                  before |-> int_enabled[c]]]
    /\ UNCHANGED <<owned, int_enabled, guards>>
    /\ UNCHANGED <<regVars, listVars, idVars, orderVars, kernelVars>>

\* lock(): A::disable_interrupts()
LockDisable(c) ==
    /\ lpc[c].at = "lock_fetched"
    /\ int_enabled' = [int_enabled EXCEPT ![c] = FALSE]
    /\ lpc' = [lpc EXCEPT ![c].at = "lock_spin"]
    /\ UNCHANGED <<owned, guards>>
    /\ UNCHANGED <<regVars, listVars, idVars, orderVars, kernelVars>>

\* a lock that serves waiting cores in order: the compare_exchange of a core
\* is held back while a core with a lower number waits for the same lock
LockSpinQueued(c) ==
    /\ lpc[c].at = "lock_spin"
    /\ ~owned[lpc[c].lock]
    /\ \A d \in Cores : d < c => ~(lpc[d].at = "lock_spin" /\ lpc[d].lock = lpc[c].lock)
    /\ owned' = [owned EXCEPT ![lpc[c].lock] = TRUE]
    /\ guards' = [guards EXCEPT ![c] =
                     Append(@, Guard(lpc[c].lock, lpc[c].interrupt_state, lpc[c].before))]
    /\ lpc' = [lpc EXCEPT ![c] = LockIdle]
    /\ UNCHANGED int_enabled
    /\ UNCHANGED <<regVars, listVars, idVars, orderVars, kernelVars>>

\* an iteration of the loop that takes the lock without looking at `owned`
LockSpinBlind(c) ==
    /\ lpc[c].at = "lock_spin"
    /\ owned' = [owned EXCEPT ![lpc[c].lock] = TRUE]
    /\ guards' = [guards EXCEPT ![c] =
                     Append(@, Guard(lpc[c].lock, lpc[c].interrupt_state, lpc[c].before))]
    /\ lpc' = [lpc EXCEPT ![c] = LockIdle]
    /\ UNCHANGED int_enabled
    /\ UNCHANGED <<regVars, listVars, idVars, orderVars, kernelVars>>

\* lock(): the iteration of the loop whose try_lock_with_interrupt_state
\* succeeds (compare_exchange(false, true)); a failed iteration changes nothing
LockSpin(c) ==
    /\ lpc[c].at = "lock_spin"
    /\ ~owned[lpc[c].lock]
    /\ owned' = [owned EXCEPT ![lpc[c].lock] = TRUE]
    /\ guards' = [guards EXCEPT ![c] =
                     Append(@, Guard(lpc[c].lock, lpc[c].interrupt_state, lpc[c].before))]
    /\ lpc' = [lpc EXCEPT ![c] = LockIdle]
    /\ UNCHANGED int_enabled
    /\ UNCHANGED <<regVars, listVars, idVars, orderVars, kernelVars>>

\* try_lock(): compare_exchange(false, true) succeeds; when it fails try_lock
\* returns None and nothing has changed
TryLockCas(c, l) ==
    /\ LockCallIdle(c)
    /\ ~owned[l]
    /\ owned' = [owned EXCEPT ![l] = TRUE]
    /\ lpc' = [lpc EXCEPT ![c] = [at |-> "try_won", lock |-> l,
                                  interrupt_state |-> FALSE,
                                  before |-> int_enabled[c]]]
    /\ UNCHANGED <<int_enabled, guards>>
    /\ UNCHANGED <<regVars, listVars, idVars, orderVars, kernelVars>>

\* try_lock(): let interrupt_state = A::fetch_interrupts()
TryLockFetch(c) ==
    /\ lpc[c].at = "try_won"
    /\ lpc' = [lpc EXCEPT ![c].at = "try_fetched",
                          ![c].interrupt_state = int_enabled[c]]
    /\ UNCHANGED <<owned, int_enabled, guards>>
    /\ UNCHANGED <<regVars, listVars, idVars, orderVars, kernelVars>>

\* try_lock(): A::disable_interrupts(); Some(UnfairSpinlockGuard { .. })
TryLockDisable(c) ==
    /\ lpc[c].at = "try_fetched"
    /\ int_enabled' = [int_enabled EXCEPT ![c] = FALSE]
    /\ guards' = [guards EXCEPT ![c] =
                     Append(@, Guard(lpc[c].lock, lpc[c].interrupt_state, lpc[c].before))]
    /\ lpc' = [lpc EXCEPT ![c] = LockIdle]
    /\ UNCHANGED owned
    /\ UNCHANGED <<regVars, listVars, idVars, orderVars, kernelVars>>

\* a guard drop in the other order: its first step restores the interrupt
\* state and leaves the flag for the second
GuardDropRestoreFirst(c, k) ==
    /\ LockCallIdle(c)
    /\ k \in 1..Len(guards[c])
    /\ int_enabled' = [int_enabled EXCEPT ![c] = guards[c][k].interrupt_state]
    /\ lpc' = [lpc EXCEPT ![c] = [at |-> "drop_restore", lock |-> guards[c][k].lock,
                                  interrupt_state |-> guards[c][k].interrupt_state,
                                  before |-> guards[c][k].before]]
    /\ UNCHANGED <<owned, guards>>
    /\ UNCHANGED <<regVars, listVars, idVars, orderVars, kernelVars>>

\* Drop for UnfairSpinlockGuard: self.lock.store(false, Release)
GuardDropStore(c, k) ==
    /\ LockCallIdle(c)
    /\ k \in 1..Len(guards[c])
    /\ owned' = [owned EXCEPT ![guards[c][k].lock] = FALSE]
    /\ guards' = [guards EXCEPT ![c] = WithoutGuard(c, k)]
    /\ lpc' = [lpc EXCEPT ![c] = [at |-> "drop_restore", lock |-> guards[c][k].lock,
                                  interrupt_state |-> guards[c][k].interrupt_state,
                                  before |-> guards[c][k].before]]
    /\ UNCHANGED int_enabled
    /\ UNCHANGED <<regVars, listVars, idVars, orderVars, kernelVars>>

\* a guard drop that re-enables interrupts whatever the saved state was
GuardDropEnable(c) ==
    /\ lpc[c].at = "drop_restore"
    /\ int_enabled' = [int_enabled EXCEPT ![c] = TRUE]
    /\ lpc' = [lpc EXCEPT ![c] = LockIdle]
    /\ UNCHANGED <<owned, guards>>
    /\ UNCHANGED <<regVars, listVars, idVars, orderVars, kernelVars>>

\* Drop for UnfairSpinlockGuard: A::restore_interrupts(self.interrupt_state)
GuardDropRestore(c) ==
    /\ lpc[c].at = "drop_restore"
    /\ int_enabled' = [int_enabled EXCEPT ![c] = lpc[c].interrupt_state]
    /\ lpc' = [lpc EXCEPT ![c] = LockIdle]
    /\ UNCHANGED <<owned, guards>>
    /\ UNCHANGED <<regVars, listVars, idVars, orderVars, kernelVars>>

\* the locks a caller may ask for: Rust lets a core ask for any lock
LockCall == \E c \in Cores, l \in Locks : LockFetch(c, l)
LockStep == \E c \in Cores : LockDisable(c) \/ LockSpin(c)
TryLock == \E c \in Cores, l \in Locks : TryLockCas(c, l)
TryLockStep == \E c \in Cores : TryLockFetch(c) \/ TryLockDisable(c)
GuardDrop == \E c \in Cores, k \in 1..NumLocks : GuardDropStore(c, k)
GuardDropStep == \E c \in Cores : GuardDropRestore(c)

\* the cores start with interrupts enabled or disabled; the registry is idle
\* the registry part of a state in which no registry call is made
RegistryIdle ==
    /\ bk = RegistryBookkeepingNew
    /\ bk_owner = {}
    /\ slots = [i \in SlotIds |-> UninitFrame]
    /\ seg_pages = SmallSegPages
    /\ slot_size = SlotSize
    /\ mapped_pages = 0
    /\ pfa_free = 0
    /\ held = [i \in SlotIds |-> 0]
    /\ pc = [c \in Cores |-> "idle"]
    /\ op = [c \in Cores |-> NoOp]
    /\ stack = [c \in Cores |-> <<>>]
    /\ asserts = {}

InitLocks ==
    /\ SpinlocksNew
    /\ ListsNew
    /\ parsed = NoParse
    /\ NoCalls
    /\ kernel = KernelIdle(0)
    /\ RegistryIdle
    /\ int_enabled \in [Cores -> BOOLEAN]

NextLocks == LockCall \/ LockStep \/ TryLock \/ TryLockStep \/ GuardDrop \/ GuardDropStep
SpecLocks == InitLocks /\ [][NextLocks]_vars

\* the cores that own lock l: they hold its guard or are inside the try_lock
\* that has set `owned`
Owners(l) ==
    {c \in Cores : \/ \E k \in 1..Len(guards[c]) : guards[c][k].lock = l
                   \/ lpc[c].at \in {"try_won", "try_fetched"} /\ lpc[c].lock = l}

\* ---------------------------------------------- the lock under contention
\* All cores use one lock, with lock() or try_lock(), and release it. One of
\* them, the waiter, at some point calls lock(); from then on the iterations
\* of its loop all fall at moments at which the lock is owned: each of them
\* fails and changes nothing, so its compare_exchange never succeeds.
Waiter == Min(Cores)
Contenders == Cores \ {Waiter}
Contended == CHOOSE l \in Locks : TRUE

\* a core that holds nothing calls lock() and gets to the loop
CallsLock(c) == (guards[c] = <<>> /\ LockFetch(c, Contended)) \/ LockDisable(c)
\* a core that holds nothing calls try_lock()
Tries(c) ==
    \/ guards[c] = <<>> /\ TryLockCas(c, Contended)
    \/ TryLockFetch(c)
    \/ TryLockDisable(c)
\* a holder drops its guard
Releases(c) == GuardDropStore(c, Len(guards[c])) \/ GuardDropRestore(c)

WaiterStep == CallsLock(Waiter) \/ Tries(Waiter) \/ Releases(Waiter)
ContenderStep(c) == CallsLock(c) \/ LockSpin(c) \/ Tries(c) \/ Releases(c)

NextContended == WaiterStep \/ \E c \in Contenders : ContenderStep(c)

\* every core keeps running: a core inside a call goes on with it, a holder
\* releases, and the waiter does call lock()
SpecContended ==
    /\ InitLocks
    /\ [][NextContended]_vars
    /\ WF_vars(WaiterStep)
    /\ SF_vars(CallsLock(Waiter))
    /\ \A c \in Contenders : WF_vars(ContenderStep(c))

\* ------------------------------------------------------- Item, ItemIter
\* Item::new(handle): prev and next are None; `held` counts the Handles to the
\* node that callers hold, the one insert returns being the first
ItemNew(h) == [live |-> TRUE, in_list |-> FALSE, prev |-> NoNode, next |-> NoNode,
               handle |-> h, held |-> 1]

\* the ids Registry::insert can return for a new node
FreeNodes == {n \in NodeIds : ~nodes[n].live}

\* the registry and the locks are not touched by the list operations, which
\* are taken one at a time; a mutation ends the life of the iterator
ListStep ==
    /\ ~it.active
    /\ it' = NoIter
    /\ UNCHANGED <<regVars, lockVars, idVars, orderVars, kernelVars>>

\* self.insert(pfa, Item::new(handle)) of a node linked to nothing; when
\* insert fails nothing has changed
NewItem(h) ==
    /\ ListStep
    /\ \E n \in FreeNodes : nodes' = [nodes EXCEPT ![n] = ItemNew(h)]
    /\ UNCHANGED <<list, order>>

\* an insert_after that sets the new node's next to the given item itself
InsertAfterLoop(item, h) ==
    /\ ListStep
    /\ nodes[item].live
    /\ \E n \in FreeNodes :
          nodes' = [nodes EXCEPT ![n] = [ItemNew(h) EXCEPT !.prev = item,
                                                          !.next = item],
                                 ![item].next = n]
    /\ UNCHANGED <<list, order>>

\* insert_after: handle = self.insert(pfa, new_item)?;
\*   new_item.prev = Some(item.clone()); new_item.next = item.next.clone();
\*   item.next = Some(handle.clone())
\* under the locks of both items; when insert fails nothing has changed
InsertAfter(item, h) ==
    /\ ListStep
    /\ nodes[item].live
    /\ \E n \in FreeNodes :
          nodes' = [nodes EXCEPT ![n] = [ItemNew(h) EXCEPT !.prev = item,
                                                          !.next = nodes[item].next],
                                 ![item].next = n]
    /\ UNCHANGED <<list, order>>

\* the drop of the last Handle to an Item that is linked to nothing and to
\* which nothing is linked, neither an Item nor the List
ReleaseItem(n) ==
    /\ ListStep
    /\ nodes[n].live /\ ~nodes[n].in_list
    /\ nodes[n].prev = NoNode /\ nodes[n].next = NoNode
    /\ \A m \in NodeIds : nodes[m].live => (nodes[m].prev # n /\ nodes[m].next # n)
    /\ list.first # n /\ list.last # n
    /\ nodes' = [nodes EXCEPT ![n] = FreeNode]
    /\ UNCHANGED <<list, order>>

\* iter_forward / iter_backward: ItemIter { current: item.clone(), direction }
IterNew(start, direction) ==
    /\ ~it.active
    /\ IF start = NoNode THEN TRUE ELSE nodes[start].live
    /\ it' = [active |-> TRUE, current |-> start, direction |-> direction,
              start |-> start, out |-> <<>>]
    /\ UNCHANGED <<nodes, list, order>>
    /\ UNCHANGED <<regVars, lockVars, idVars, orderVars, kernelVars>>

\* the link ItemIter::next follows
Follow(n, direction) == IF direction = "Forward" THEN nodes[n].next ELSE nodes[n].prev

\* ItemIter::next: current = self.current.take()?; next = current.next (or
\* prev) cloned; self.current = next; returns next. A returned None ends the
\* iteration of the caller.
IterNext ==
    /\ it.active
    /\ IF it.current = NoNode
       THEN it' = [it EXCEPT !.active = FALSE]
       ELSE LET next == Follow(it.current, it.direction)
            IN  it' = [it EXCEPT !.current = next,
                                 !.out = IF next = NoNode THEN @ ELSE Append(@, next),
                                 !.active = next # NoNode]
    /\ UNCHANGED <<nodes, list, order>>
    /\ UNCHANGED <<regVars, lockVars, idVars, orderVars, kernelVars>>

Directions == {"Forward", "Backward"}
CreateItem == \E h \in HandleIds : NewItem(h)
LinkAfter == \E item \in NodeIds, h \in HandleIds : InsertAfter(item, h)
DropItem == \E n \in NodeIds : ReleaseItem(n)
Iterate == \E start \in NodeIds \cup {NoNode}, d \in Directions : IterNew(start, d)

InitItems ==
    /\ SpinlocksNew
    /\ int_enabled = [c \in Cores |-> TRUE]
    /\ ListsNew
    /\ parsed = NoParse
    /\ NoCalls
    /\ kernel = KernelIdle(0)
    /\ RegistryIdle

\* free-standing chains of Items built with insert and insert_after
NextItems == CreateItem \/ LinkAfter \/ DropItem \/ Iterate \/ IterNext
SpecItems == InitItems /\ [][NextItems]_vars

\* ---------------------------------------------------------------- List
\* an append that leaves `first` alone when the list was empty
ListAppendNoFirst(h) ==
    /\ ListStep
    /\ \E n \in FreeNodes :
          LET new == [ItemNew(h) EXCEPT !.in_list = TRUE, !.prev = list.last]
          IN  /\ nodes' = IF list.last = NoNode THEN [nodes EXCEPT ![n] = new]
                          ELSE [nodes EXCEPT ![n] = new, ![list.last].next = n]
              /\ list' = [list EXCEPT !.last = n, !.count = @ + 1]
              /\ order' = Append(order, n)

\* List::append: a new node wrapping the handle, prev = old last;
\* old_last.next = new node, or first = new node when there was no tail;
\* last = new node; count + 1
ListAppend(h) ==
    /\ ListStep
    /\ \E n \in FreeNodes :
          LET new == [ItemNew(h) EXCEPT !.in_list = TRUE, !.prev = list.last]
          IN  /\ nodes' = IF list.last = NoNode THEN [nodes EXCEPT ![n] = new]
                          ELSE [nodes EXCEPT ![n] = new, ![list.last].next = n]
              /\ list' = [first |-> IF list.last = NoNode THEN n ELSE list.first,
                          last |-> n,
                          count |-> list.count + 1]
              /\ order' = Append(order, n)

\* the sequence s without the element x
Without(s, x) == SelectSeq(s, LAMBDA y : y # x)

\* a delete that leaves `last` alone when the node was the tail
ItemDeleteKeepsLast(n) ==
    /\ ListStep
    /\ nodes[n].live /\ nodes[n].in_list
    /\ LET p == nodes[n].prev
           x == nodes[n].next
           cleared == [nodes EXCEPT ![n].in_list = FALSE, ![n].prev = NoNode,
                                    ![n].next = NoNode]
           back == IF p = NoNode THEN cleared ELSE [cleared EXCEPT ![p].next = x]
       IN  /\ nodes' = IF x = NoNode THEN back ELSE [back EXCEPT ![x].prev = p]
           /\ list' = [first |-> IF p = NoNode THEN x ELSE list.first,
                       last |-> list.last,
                       count |-> list.count - 1]
    /\ order' = Without(order, n)

\* Item::delete: prev.next and next.prev re-linked, first / last adjusted at
\* the boundaries, count - 1, the node's list / prev / next cleared
ItemDelete(n) ==
    /\ ListStep
    /\ nodes[n].live /\ nodes[n].in_list
    /\ LET p == nodes[n].prev
           x == nodes[n].next
           cleared == [nodes EXCEPT ![n].in_list = FALSE, ![n].prev = NoNode,
                                    ![n].next = NoNode]
           back == IF p = NoNode THEN cleared ELSE [cleared EXCEPT ![p].next = x]
       IN  /\ nodes' = IF x = NoNode THEN back ELSE [back EXCEPT ![x].prev = p]
           /\ list' = [first |-> IF p = NoNode THEN x ELSE list.first,
                       last |-> IF x = NoNode THEN p ELSE list.last,
                       count |-> list.count - 1]
    /\ order' = Without(order, n)

AppendHandle == \E h \in HandleIds : ListAppend(h)
DeleteItem == \E n \in NodeIds : ItemDelete(n)

\* one list, its appends and deletes, and iterators over its nodes
NextList == AppendHandle \/ DeleteItem \/ DropItem \/ Iterate \/ IterNext
SpecList == InitItems /\ [][NextList]_vars

\* the nodes reached from n along next (or prev) links, n first
RECURSIVE Walk(_, _, _)
Walk(n, direction, fuel) ==
    IF n = NoNode \/ fuel = 0 THEN <<>>
    ELSE <<n>> \o Walk(Follow(n, direction), direction, fuel - 1)

\* an iteration has run to its end
IterDone == ~it.active /\ it.direction # "none"

\* what an ItemIter whose `current` is n yields until next() returns None
RECURSIVE Yields(_, _, _)
Yields(n, direction, fuel) ==
    IF n = NoNode \/ fuel = 0 THEN <<>>
    ELSE LET next == Follow(n, direction)
         IN  IF next = NoNode THEN <<>>
             ELSE <<next>> \o Yields(next, direction, fuel - 1)

\* Iterator::last(): the final element yielded, None when nothing is yielded
IterLast(yielded) == IF yielded = <<>> THEN NoNode ELSE yielded[Len(yielded)]

\* iter_all: ItemIter { current: self.iter_backward(item).last(), Forward };
\* `start` records the item iter_all was called on
IterAll(item) ==
    /\ ~it.active
    /\ IF item = NoNode THEN TRUE ELSE nodes[item].live
    /\ it' = [active |-> TRUE,
              current |-> IterLast(Yields(item, "Backward", MaxNodes)),
              direction |-> "Forward", start |-> item, out |-> <<>>]
    /\ UNCHANGED <<nodes, list, order>>
    /\ UNCHANGED <<regVars, lockVars, idVars, orderVars, kernelVars>>

IterateAll == \E item \in NodeIds \cup {NoNode} : IterAll(item)

\* chains of Items built with insert and insert_after, walked with iter_all
NextAll == CreateItem \/ LinkAfter \/ DropItem \/ IterateAll \/ IterNext
SpecAll == InitItems /\ [][NextAll]_vars

\* the links do not depend on the payload handle a node wraps: one handle
\* stands for all of them
AnyHandle == CHOOSE h \in HandleIds : TRUE
AppendNode == ListAppend(AnyHandle)
LinkNodeAfter == \E item \in NodeIds : InsertAfter(item, AnyHandle)

\* one list and free-standing chains: every operation of the overlay, and
\* every kind of iteration
NextOverlay == AppendNode \/ LinkNodeAfter \/ DeleteItem \/ DropItem
                  \/ Iterate \/ IterateAll \/ IterNext
SpecOverlay == InitItems /\ [][NextOverlay]_vars

\* ----------------------------------------------- chains and their Handles
\* The reference count of a node: the Handles callers hold, the prev and next
\* fields of Items that refer to it, and the first and last fields of the List
UserCount(ns, n) ==
    ns[n].held
    + Cardinality({m \in NodeIds : ns[m].live /\ ns[m].prev = n})
    + Cardinality({m \in NodeIds : ns[m].live /\ ns[m].next = n})
    + (IF list.first = n THEN 1 ELSE 0) + (IF list.last = n THEN 1 ELSE 0)

\* forget_item_at for every node whose count has reached zero: the Item is
\* destroyed, which drops its prev, next and handle fields, and the Handles
\* dropped that way may bring further counts to zero
RECURSIVE ForgetAll(_)
ForgetAll(ns) ==
    LET dead == {n \in NodeIds : ns[n].live /\ UserCount(ns, n) = 0}
    IN  IF dead = {} THEN ns
        ELSE ForgetAll([ns EXCEPT ![CHOOSE n \in dead : TRUE] = FreeNode])

\* Handle::clone of a Handle to a node
CloneNode(n) ==
    /\ ListStep
    /\ nodes[n].live /\ nodes[n].held > 0 /\ nodes[n].held < MaxHeld
    /\ nodes' = [nodes EXCEPT ![n].held = @ + 1]
    /\ UNCHANGED <<list, order>>

\* Handle::drop of a Handle to a node that a caller holds
DropNode(n) ==
    /\ ListStep
    /\ nodes[n].live /\ nodes[n].held > 0
    /\ nodes' = ForgetAll([nodes EXCEPT ![n].held = @ - 1])
    /\ UNCHANGED <<list, order>>

CloneNodeHandle == \E n \in NodeIds : CloneNode(n)
DropNodeHandle == \E n \in NodeIds : DropNode(n)

\* chains built with insert and insert_after, and the Handles to their nodes
\* cloned and dropped
NextChains == CreateItem \/ LinkAfter \/ CloneNodeHandle \/ DropNodeHandle
SpecChains == InitItems /\ [][NextChains]_vars

\* ------------------------------------------------------------ KernelState
\* KernelState::init has returned Ok: the root ring is stored with id 0 and
\* is the one member of the rings list
KernelInit(pages) ==
    [KernelIdle(pages) EXCEPT !.rings[0] = [stored |-> TRUE, id |-> 0, parent |-> 0],
                              !.list = <<0>>]

\* An allocation of a slot (a List, a Ring, a list node) from a registry that
\* is given the kernel's allocator: it needs no page, or takes one, or fails
\* for lack of one
Allocate(pages) ==
    {[ok |-> TRUE, pfa |-> pages]}
        \cup (IF pages > 0 THEN {[ok |-> TRUE, pfa |-> pages - 1]}
              ELSE {[ok |-> FALSE, pfa |-> pages]})

\* create_ring is called with a Handle to an existing ring
CreateRingCall(parent) ==
    /\ kernel.call.at = "idle"
    /\ kernel.rings[parent].stored
    /\ \E i \in RingIds : ~kernel.rings[i].stored
    /\ kernel' = [kernel EXCEPT !.call = [NoRingCall EXCEPT !.at = "create_list",
                                                           !.parent = parent]]
    /\ UNCHANGED <<regVars, lockVars, listVars, idVars, orderVars>>

\* instances: self.instance_list_registry.create_list(&self.pfa)?
CreateList ==
    /\ kernel.call.at = "create_list"
    /\ \E a \in Allocate(kernel.pfa) :
          kernel' = IF a.ok
                    THEN [kernel EXCEPT !.pfa = a.pfa, !.call.at = "insert"]
                    ELSE [kernel EXCEPT !.call.at = "return",
                                        !.call.failed = @ \cup {"instances"},
                                        !.call.result = "OutOfMemory"]
    /\ UNCHANGED <<regVars, lockVars, listVars, idVars, orderVars>>

\* self.ring_registry.insert(&self.pfa, Ring { id: usize::MAX, parent, instances })?
InsertRing ==
    /\ kernel.call.at = "insert"
    /\ \E a \in Allocate(kernel.pfa) :
          kernel' = IF a.ok
                    THEN LET id == Min({i \in RingIds : ~kernel.rings[i].stored})
                         IN  [kernel EXCEPT !.pfa = a.pfa,
                                            !.rings[id] = [stored |-> TRUE,
                                                           id |-> PlaceholderId,
                                                           parent |-> kernel.call.parent],
                                            !.call.ring = id,
                                            !.call.at = "set_id"]
                    ELSE [kernel EXCEPT !.call.at = "return",
                                        !.call.failed = @ \cup {"ring"},
                                        !.call.result = "OutOfMemory"]
    /\ UNCHANGED <<regVars, lockVars, listVars, idVars, orderVars>>

\* ring.lock().id = ring.id()
SetRingId ==
    /\ kernel.call.at = "set_id"
    /\ kernel' = [kernel EXCEPT !.rings[kernel.call.ring].id = kernel.call.ring,
                                !.call.at = "append"]
    /\ UNCHANGED <<regVars, lockVars, listVars, idVars, orderVars>>

\* let _ = self.rings.as_ref().unwrap().append(&self.pfa, ring.clone());
\* Ok(ring)
AppendRing ==
    /\ kernel.call.at = "append"
    /\ \E a \in Allocate(kernel.pfa) :
          kernel' = IF a.ok
                    THEN [kernel EXCEPT !.pfa = a.pfa,
                                        !.list = Append(@, kernel.call.ring),
                                        !.call.at = "return",
                                        !.call.result = "Ok"]
                    ELSE [kernel EXCEPT !.call.failed = @ \cup {"node"},
                                        !.call.at = "return",
                                        !.call.result = "Ok"]
    /\ UNCHANGED <<regVars, lockVars, listVars, idVars, orderVars>>

\* the caller has the result
CreateRingReturn ==
    /\ kernel.call.at = "return"
    /\ kernel' = [kernel EXCEPT !.call = NoRingCall]
    /\ UNCHANGED <<regVars, lockVars, listVars, idVars, orderVars>>

InitKernel ==
    /\ SpinlocksNew
    /\ int_enabled = [c \in Cores |-> TRUE]
    /\ ListsNew
    /\ parsed = NoParse
    /\ NoCalls
    /\ RegistryIdle
    /\ kernel \in {KernelInit(pages) : pages \in 0..PfaSmall}

CreateRing == \E parent \in RingIds : CreateRingCall(parent)
NextKernel == CreateRing \/ CreateList \/ InsertRing \/ SetRingId \/ AppendRing
                 \/ CreateRingReturn
SpecKernel == InitKernel /\ [][NextKernel]_vars

\* ------------------------------------------------------------------ IDs
\* A string is the sequence of its bytes (s.as_bytes()); s[k] of the code is
\* s[k + 1] here.
IdLen == 27
ValueLen == 25
BufLen == 16

\* IdType::try_from_bchar: b'M' and b'P' are the id_bchar of the two types
TryFromBchar(b) ==
    IF b = 77 THEN "Module" ELSE IF b = 80 THEN "PortType" ELSE "None"

\* IdType::id_u8
IdU8(ty) == IF ty = "Module" THEN 1 ELSE 2

\* IdType::try_from_u8
TryFromU8(v) ==
    IF v = 1 THEN "Module" ELSE IF v = 2 THEN "PortType" ELSE "None"

\* the match of try_to_buffer on one byte of the value; -1 is its `_` arm
DecodeValue(c) ==
    CASE c \in 48..57 -> c - 48
      [] c \in {111, 79} -> 0
      [] c \in {105, 73, 108, 76} -> 1
      [] c \in {115, 83} -> 5
      [] c \in {98, 66} -> 8
      [] c = 65 -> c - 65 + 10
      [] c = 97 -> c - 97 + 10
      [] c \in 67..72 -> c - 67 + 10 + (67 - 65) - 1
      [] c \in 99..104 -> c - 99 + 10 + (99 - 97) - 1
      [] c \in 74..75 -> c - 74 + 10 + (74 - 65) - 2
      [] c \in 106..107 -> c - 106 + 10 + (106 - 97) - 2
      [] c \in 77..78 -> c - 77 + 10 + (77 - 65) - 3
      [] c \in 109..110 -> c - 109 + 10 + (109 - 97) - 3
      [] c \in 80..82 -> c - 80 + 10 + (80 - 65) - 4
      [] c \in 112..114 -> c - 112 + 10 + (112 - 97) - 4
      [] c \in 84..90 -> c - 84 + 10 + (84 - 65) - 5
      [] c \in 116..122 -> c - 116 + 10 + (116 - 97) - 5
      [] c \in {45, 95} -> 31
      [] OTHER -> -1

\* a | b on u8
RECURSIVE BitOr(_, _, _)
BitOr(a, b, bits) ==
    IF bits = 0 THEN 0
    ELSE (IF a % 2 = 1 \/ b % 2 = 1 THEN 1 ELSE 0)
         + 2 * BitOr(a \div 2, b \div 2, bits - 1)

\* one round of the loop of try_to_buffer: the 5 bits of ch go to bit
\* i * 5 + 3 of the buffer (buf[k] of the code is buf[k + 1] here)
PutDigit(buf, i, ch) ==
    LET bit_offset == (i * 5) + 3
        b0_index == bit_offset \div 8
        b0_start == 8 - (bit_offset % 8)
        b0_end == IF b0_start >= 5 THEN b0_start - 5 ELSE 0
        b0_total == b0_start - b0_end
        b1_total == 5 - b0_total
        b0 == ((ch \div (2 ^ (b1_total))) * (2 ^ (b0_end))) % 256
        b1 == ((ch % (2 ^ (b1_total))) * (2 ^ (8 - b1_total))) % 256
        first == [buf EXCEPT ![b0_index + 1] = BitOr(@, b0, 8)]
    IN  IF b1_total > 0 THEN [first EXCEPT ![b0_index + 2] = BitOr(@, b1, 8)]
        ELSE first

\* the loop of try_to_buffer from round i on: the buffer, or <<>> when a
\* byte of the value is not of the alphabet
RECURSIVE DecodeFrom(_, _, _)
DecodeFrom(s, buf, i) ==
    IF i = ValueLen THEN buf
    ELSE LET ch == DecodeValue(s[i + 3])
         IN  IF ch = -1 THEN <<>> ELSE DecodeFrom(s, PutDigit(buf, i, ch), i + 1)

\* try_to_buffer: Ok(buf) or Err(err)
TryToBuffer(s) ==
    IF Len(s) # IdLen THEN [err |-> "Malformed", buf |-> <<>>]
    ELSE IF s[2] # 45 THEN [err |-> "Malformed", buf |-> <<>>]
    ELSE LET ty == TryFromBchar(s[1])
         IN  IF ty = "None" THEN [err |-> "Malformed", buf |-> <<>>]
             ELSE LET ty_bits == (IdU8(ty) * 32) % 256
                      buf == DecodeFrom(s, [k \in 1..BufLen |-> IF k = 1 THEN ty_bits ELSE 0], 0)
                  IN  IF buf = <<>> THEN [err |-> "Malformed", buf |-> <<>>]
                      ELSE [err |-> "Ok", buf |-> buf]

\* <AnyId as FromStr>::from_str
AnyIdFromStr(s) == TryToBuffer(s)

\* <Id<TY> as FromStr>::from_str
IdFromStr(TY, s) ==
    LET r == TryToBuffer(s)
    IN  IF r.err # "Ok" THEN r
        ELSE LET ty == TryFromU8(r.buf[1] \div 32)
             IN  IF ty = "None" THEN [err |-> "InvalidType", buf |-> <<>>]
                 ELSE IF ty # TY THEN [err |-> "InvalidType", buf |-> <<>>]
                 ELSE r

\* The strings that are parsed. A first byte: M, P, m, X, 0, -. A second
\* byte: -, _, 0. A value of 25 bytes, all 0 but one, which is of the
\* alphabet (0, 9, A, B, O, U, Z, z, -, _) or not (!, @, {, a blank, a
\* byte above 127). The string as it is, cut by its last byte, or longer by
\* one byte; and the empty string.
Strings ==
    LET TypeBytes == {77, 80, 109, 88, 48, 45}
        HyphenBytes == {45, 95, 48}
        ValueBytes == {48, 57, 65, 66, 79, 85, 90, 122, 45, 95, 33, 64, 123, 32, 200}
        OddPlaces == {0, 12, 24}
        FullStrings ==
            {<<t, h>> \o [i \in 1..ValueLen |-> IF i = p + 1 THEN v ELSE 48] :
                t \in TypeBytes, h \in HyphenBytes, v \in ValueBytes, p \in OddPlaces}
    IN  FullStrings \cup {SubSeq(s, 1, IdLen - 1) : s \in FullStrings}
                    \cup {Append(s, 48) : s \in FullStrings} \cup {<<>>}
IdTypes == {"Module", "PortType"}

\* a call of from_str that has been given its string and has not returned
ParseCall(s, target) == [s |-> s, target |-> target, result |-> "none", buf |-> <<>>]

InitParse ==
    /\ SpinlocksNew
    /\ int_enabled = [c \in Cores |-> TRUE]
    /\ ListsNew
    /\ RegistryIdle
    /\ NoCalls
    /\ kernel = KernelIdle(0)
    /\ parsed \in {ParseCall(s, target) : s \in Strings, target \in {"AnyId"} \cup IdTypes}

ParseAnyId ==
    /\ parsed.target = "AnyId" /\ parsed.result = "none"
    /\ LET r == AnyIdFromStr(parsed.s)
       IN  parsed' = [parsed EXCEPT !.result = r.err, !.buf = r.buf]
    /\ UNCHANGED <<regVars, lockVars, listVars, orderVars, kernelVars>>

ParseId ==
    /\ parsed.target \in IdTypes /\ parsed.result = "none"
    /\ LET r == IdFromStr(parsed.target, parsed.s)
       IN  parsed' = [parsed EXCEPT !.result = r.err, !.buf = r.buf]
    /\ UNCHANGED <<regVars, lockVars, listVars, orderVars, kernelVars>>

NextParse == ParseAnyId \/ ParseId
SpecParse == InitParse /\ [][NextParse]_vars

\* ------------------------------------- registries sharing an allocator
\* The locks insert, get and drop take, on several registries whose inserts
\* are given the same page-frame allocator. Counts and payloads are left
\* open: a drop may or may not be the last one, a payload may or may not own
\* a Handle of any of the registries. Handle::clone takes no lock.
HeldLocks(c) == {l \in DOMAIN lock_owner : lock_owner[l] = c}
Outside(c) == call[c].at = "idle" /\ call[c].nest = <<>>

\* the activations of forget_item_at started by dropping a value that owns at
\* most one Handle whose drop is the last one, below the depth bound
Dropped(depth) ==
    {<<>>} \cup (IF depth < MaxNest
                 THEN {<<[reg |-> r, step |-> 1]>> : r \in Registries}
                 ELSE {})

\* insert_permanent / get: `self.bookkeeping.lock()` is called
CallLock(c, r, o) ==
    /\ Outside(c)
    /\ call' = [call EXCEPT ![c] = [NoCall EXCEPT !.at = "bk_wait", !.op = o, !.reg = r]]
    /\ UNCHANGED lock_owner
    /\ UNCHANGED <<regVars, lockVars, listVars, idVars, kernelVars>>

\* the lock() of the bookkeeping returns
BkAcquire(c) ==
    /\ call[c].at = "bk_wait"
    /\ lock_owner[call[c].reg] = NoCore
    /\ lock_owner' = [lock_owner EXCEPT ![call[c].reg] = c]
    /\ call' = [call EXCEPT ![c].at = "locked"]
    /\ UNCHANGED <<regVars, lockVars, listVars, idVars, kernelVars>>

\* get, and insert_permanent when it takes a free slot or needs no page or
\* finds the segment exhausted: no other lock is taken
NoGrowth(c) ==
    /\ call[c].at = "locked"
    /\ \E ok \in (IF call[c].op = "get" THEN {TRUE} ELSE BOOLEAN) :
          call' = [call EXCEPT ![c].at = "release_bk", ![c].ok = ok]
    /\ UNCHANGED lock_owner
    /\ UNCHANGED <<regVars, lockVars, listVars, idVars, kernelVars>>

\* insert_permanent, new_page_count > bk.total_page_count: `pfa.lock()` is called
PfaCall(c) ==
    /\ call[c].at = "locked"
    /\ call[c].op = "insert"
    /\ call' = [call EXCEPT ![c].at = "pfa_wait"]
    /\ UNCHANGED lock_owner
    /\ UNCHANGED <<regVars, lockVars, listVars, idVars, kernelVars>>

\* the lock() of the allocator returns
PfaAcquire(c) ==
    /\ call[c].at = "pfa_wait"
    /\ lock_owner[PfaLock] = NoCore
    /\ lock_owner' = [lock_owner EXCEPT ![PfaLock] = c]
    /\ call' = [call EXCEPT ![c].at = "growing"]
    /\ UNCHANGED <<regVars, lockVars, listVars, idVars, kernelVars>>

\* the page loop ends, with all pages mapped or with `?` / `return Err(err)`;
\* the allocator's guard is the innermost local and is dropped first
PfaRelease(c) ==
    /\ call[c].at = "growing"
    /\ lock_owner' = [lock_owner EXCEPT ![PfaLock] = NoCore]
    /\ \E ok \in BOOLEAN :
          call' = [call EXCEPT ![c].at = "release_bk", ![c].ok = ok]
    /\ UNCHANGED <<regVars, lockVars, listVars, idVars, kernelVars>>

\* a failed insert that drops the rejected item while `bk` is still alive
BkReleaseItemFirst(c) ==
    /\ call[c].at = "release_bk"
    /\ call[c].nest = <<>>
    /\ IF call[c].ok
       THEN /\ lock_owner' = [lock_owner EXCEPT ![call[c].reg] = NoCore]
            /\ call' = [call EXCEPT ![c] = NoCall]
       ELSE /\ \E nest \in Dropped(0) :
                  call' = [call EXCEPT ![c].ok = TRUE, ![c].nest = nest]
            /\ UNCHANGED lock_owner
    /\ UNCHANGED <<regVars, lockVars, listVars, idVars, kernelVars>>

\* the return: `bk` is dropped, and on Err the rejected item (declared before
\* `bk`) is dropped after it, with the Handles it owns
BkRelease(c) ==
    /\ call[c].at = "release_bk"
    /\ call[c].nest = <<>>
    /\ lock_owner' = [lock_owner EXCEPT ![call[c].reg] = NoCore]
    /\ \E nest \in (IF call[c].ok THEN {<<>>} ELSE Dropped(0)) :
          call' = [call EXCEPT ![c] = [NoCall EXCEPT !.nest = nest]]
    /\ UNCHANGED <<regVars, lockVars, listVars, idVars, kernelVars>>

\* Handle::drop of the last Handle to a slot of registry r
LastDrop(c, r) ==
    /\ Outside(c)
    /\ call' = [call EXCEPT ![c].nest = <<[reg |-> r, step |-> 1]>>]
    /\ UNCHANGED lock_owner
    /\ UNCHANGED <<regVars, lockVars, listVars, idVars, kernelVars>>

\* the innermost activation of forget_item_at and the step it is at
Inner(c) == call[c].nest[Len(call[c].nest)]
InnerStep(c) ==
    IF call[c].nest = <<>> THEN "none"
    ELSE IF Inner(c).step <= Len(ForgetSteps) THEN ForgetSteps[Inner(c).step]
    ELSE "end"
Proceed(c, nested) ==
    [call EXCEPT ![c].nest =
        SubSeq(@, 1, Len(@) - 1) \o <<[Inner(c) EXCEPT !.step = @ + 1]>> \o nested]

\* ManuallyDrop::drop: the payload's Handles are dropped, each through
\* forget_item_at
NestDestroy(c) ==
    /\ InnerStep(c) = "destroy"
    /\ \E nested \in Dropped(Len(call[c].nest)) : call' = Proceed(c, nested)
    /\ UNCHANGED lock_owner
    /\ UNCHANGED <<regVars, lockVars, listVars, idVars, kernelVars>>

\* forget_item_at: the lock() of the bookkeeping returns
NestLock(c) ==
    /\ InnerStep(c) = "lock"
    /\ lock_owner[Inner(c).reg] = NoCore
    /\ lock_owner' = [lock_owner EXCEPT ![Inner(c).reg] = c]
    /\ call' = Proceed(c, <<>>)
    /\ UNCHANGED <<regVars, lockVars, listVars, idVars, kernelVars>>

\* forget_item_at: the slot is pushed onto the free list
NestLink(c) ==
    /\ InnerStep(c) = "link"
    /\ call' = Proceed(c, <<>>)
    /\ UNCHANGED lock_owner
    /\ UNCHANGED <<regVars, lockVars, listVars, idVars, kernelVars>>

\* forget_item_at: the guard goes out of scope
NestEnd(c) ==
    /\ InnerStep(c) = "end"
    /\ lock_owner' = [l \in DOMAIN lock_owner |->
                         IF l = Inner(c).reg /\ lock_owner[l] = c THEN NoCore
                         ELSE lock_owner[l]]
    /\ call' = [call EXCEPT ![c].nest = SubSeq(@, 1, Len(@) - 1)]
    /\ UNCHANGED <<regVars, lockVars, listVars, idVars, kernelVars>>

\* the lock a core is spinning on, if any
NoLock == -1
WaitsFor(c) ==
    IF call[c].nest # <<>>
    THEN (IF InnerStep(c) = "lock" THEN Inner(c).reg ELSE NoLock)
    ELSE IF call[c].at = "bk_wait" THEN call[c].reg
    ELSE IF call[c].at = "pfa_wait" THEN PfaLock
    ELSE NoLock

SharedInsert == \E c \in Cores, r \in Registries : CallLock(c, r, "insert")
SharedGet == \E c \in Cores, r \in Registries : CallLock(c, r, "get")
SharedStep == \E c \in Cores :
    BkAcquire(c) \/ NoGrowth(c) \/ PfaCall(c) \/ PfaAcquire(c) \/ PfaRelease(c) \/ BkRelease(c)
SharedDrop == \E c \in Cores, r \in Registries : LastDrop(c, r)
SharedForget == \E c \in Cores :
    NestDestroy(c) \/ NestLock(c) \/ NestLink(c) \/ NestEnd(c)
NextShared == SharedInsert \/ SharedGet \/ SharedStep \/ SharedDrop \/ SharedForget
SpecShared == InitItems /\ [][NextShared]_vars

\* ---------------------------------------------------------------- views
\* the ids linked from last_free_id through next_free
RECURSIVE Chain(_, _)
Chain(i, fuel) ==
    IF i = NoFree \/ fuel = 0 THEN {}
    ELSE {i} \cup Chain(slots[i].next_free, fuel - 1)
FreeIds == Chain(bk.last_free_id, MaxSlots)

\* the same walk as a sequence, one step further than there are slots: a
\* chain that comes back to a slot shows it twice
RECURSIVE ChainSeq(_, _)
ChainSeq(i, fuel) ==
    IF i = NoFree \/ fuel = 0 THEN <<>>
    ELSE <<i>> \o ChainSeq(IF i \in SlotIds THEN slots[i].next_free ELSE NoFree, fuel - 1)
FreeSeq == ChainSeq(bk.last_free_id, MaxSlots + 1)
TimesFree(id) == Cardinality({k \in 1..Len(FreeSeq) : FreeSeq[k] = id})

\* the Handles to slot id that exist: held by callers, owned by live items,
\* owned by the item an insert was given, and the one a successful insert is
\* about to return
LiveHandles(id) ==
    held[id]
    + Cardinality({j \in SlotIds : slots[j].kind = "item" /\ id \in slots[j].parent})
    + Cardinality({c \in Cores : pc[c] = "ins_ret" /\ ~op[c].ok /\ id \in op[c].parent})
    + Cardinality({c \in Cores : pc[c] = "ins_ret" /\ op[c].ok /\ id = op[c].id})

InsertStep(c) == pc[c] = "idle" /\ pc'[c] = "ins_ret"

\* ---------------------------------------------------------------- claims

\* C1: every slot whose last handle has been dropped (its drop has linked it)
\* is on the free list; an insert that finds the free list non-empty returns
\* the id at its head, a freed slot, and leaves total_count and
\* total_page_count unchanged; total_count and total_page_count change only
\* in an insert that finds the free list empty.
C1_Freed == \A id \in SlotIds : slots[id].kind = "next_free" => id \in FreeIds
C1_InsertReuses ==
    \A c \in Cores : InsertStep(c) =>
        IF bk.last_free_id # NoFree
        THEN /\ op'[c].ok
             /\ op'[c].id = bk.last_free_id
             /\ slots[op'[c].id].kind = "next_free"
             /\ slots[op'[c].id].user_count = 0
             /\ bk'.total_count = bk.total_count
             /\ bk'.total_page_count = bk.total_page_count
        ELSE op'[c].ok => op'[c].id = bk.total_count
C1_GrowsOnlyWhenEmpty ==
    (bk'.total_count # bk.total_count \/ bk'.total_page_count # bk.total_page_count)
        => bk.last_free_id = NoFree
C1_ReuseBeforeGrow ==
    []C1_Freed /\ [][C1_InsertReuses /\ C1_GrowsOnlyWhenEmpty]_vars
\* insert A (id 0), insert B (id 1), drop A, insert C: C is given id 0
C1_Witness ==
    \E c \in Cores :
        /\ pc[c] = "ins_ret" /\ op[c].ok /\ op[c].id = 0
        /\ bk.total_count = 2 /\ bk.last_free_id = NoFree
        /\ slots[1].kind = "item" /\ held[1] = 1

\* C2: a drop of a handle to a slot to which other handles remain leaves the
\* payload alive and the slot off the free list, and starts no destruction; the
\* drop of the only remaining handle starts the destruction of that slot, and
\* when that drop returns the payload is destroyed and the slot is the head of
\* the free list.
DropStep(c, id) == Drop(c, id)
C2_Drop ==
    \A c \in Cores, id \in SlotIds : DropStep(c, id) =>
        IF LiveHandles(id) > 1
        THEN /\ slots'[id].kind = "item"
             /\ id \notin FreeIds'
             /\ stack'[c] = stack[c]
        ELSE stack'[c] = <<[id |-> id, step |-> 1]>>
C2_Returns ==
    \A c \in Cores : (stack[c] # <<>> /\ Len(stack'[c]) < Len(stack[c])) =>
        /\ slots'[Top(c).id].kind = "next_free"
        /\ bk'.last_free_id = Top(c).id
C2_Alive ==
    \A id \in SlotIds : LiveHandles(id) >= 1 =>
        slots[id].kind = "item" /\ id \notin FreeIds
C2_LastDropFrees == []C2_Alive /\ [][C2_Drop /\ C2_Returns]_vars
\* a handle was cloned, one of the two was dropped and the payload lives on,
\* while another slot's only handle was dropped and the slot was freed
C2_Witness ==
    \E id, other \in SlotIds :
        /\ held[id] = 1 /\ slots[id].user_count = 1 /\ slots[id].kind = "item"
        /\ slots[other].kind = "next_free" /\ bk.last_free_id = other
        /\ \A c \in Cores : Idle(c)

\* C3: when get returns Some(Handle), the slot holds a live payload and its
\* reference count has not been brought to zero by a drop.
C3_GetLive ==
    \A c \in Cores : (pc[c] = "get_inc" /\ pc'[c] = "idle") =>
        /\ slots[op[c].id].user_count >= 1
        /\ slots[op[c].id].kind = "item"
C3_GetNeverReturnsDead == [][C3_GetLive]_vars

\* C4: a slot to which a caller holds a handle has a nonzero reference count,
\* a live payload, and is not linked in the free list.
C4_HeldIsLive ==
    \A id \in SlotIds : held[id] >= 1 =>
        /\ slots[id].user_count # 0
        /\ slots[id].kind = "item"
        /\ id \notin FreeIds

\* C5: no clone of a live handle fails the debug assertion of lease_item_at.
C5_CloneStep == \A c \in Cores, id \in SlotIds :
                    Clone(c, id) => LeaseAssertHolds(slots[id].user_count)
C5_CloneNeverTrips == [][C5_CloneStep]_vars

\* C6: the reference count of every slot created by insert equals the number
\* of live handles that refer to it.
C6_CountIsHandles ==
    \A id \in SlotIds : id < bk.total_count =>
        slots[id].user_count = LiveHandles(id)

\* C7 as claimed: an insert that fails during growth has given back every
\* page it took from the allocator and has allocated no slot.
GrowthFailure(c) ==
    /\ InsertStep(c)
    /\ ~op'[c].ok
    /\ bk.last_free_id = NoFree
    /\ SegLow + (bk.total_count + 1) * slot_size - 1 <= SegHigh
NoSlotAllocated ==
    /\ bk'.total_count = bk.total_count
    /\ bk'.last_free_id = bk.last_free_id
    /\ slots' = slots
C7_AllReleased ==
    \A c \in Cores : GrowthFailure(c) => (pfa_free' = pfa_free /\ NoSlotAllocated)
C7_MappedKept ==
    \A c \in Cores : GrowthFailure(c) =>
        /\ pfa_free - pfa_free' = bk'.total_page_count - bk.total_page_count
        /\ mapped_pages' - mapped_pages = bk'.total_page_count - bk.total_page_count
        /\ pfa_free' <= pfa_free
        /\ NoSlotAllocated
C8_Exhausted ==
    \A c \in Cores :
        (/\ InsertStep(c)
         /\ bk.last_free_id = NoFree
         /\ SegLow + (bk.total_count + 1) * slot_size - 1 > SegHigh)
        => /\ ~op'[c].ok
           /\ op'[c].err = "VirtOutOfRange"
           /\ bk' = bk
           /\ slots' = slots
           /\ pfa_free' = pfa_free
           /\ mapped_pages' = mapped_pages
StepName(f) == IF f.step <= Len(ForgetSteps) THEN ForgetSteps[f.step] ELSE "end"
\* an activation below the innermost one is inside ManuallyDrop::drop: the
\* drop of a Handle its payload owns is what runs above it
DestroyingPayload(c) ==
    \E k \in 1..Len(stack[c]) :
        k < Len(stack[c]) \/ StepName(stack[c][k]) = "destroy"

\* C9 as claimed: no core holds the bookkeeping lock while it is destroying a
\* payload.
C9_NoLockWhileDestroying ==
    \A c \in Cores : c \in bk_owner => ~DestroyingPayload(c)

\* C9 amended: a core that holds the bookkeeping lock inside forget has
\* destroyed the payload of the slot it is freeing before it took the lock,
\* and starts no destruction while it holds it; the lock may be held while an
\* outer payload's destruction is in progress, by the nested drop of a Handle
\* that payload owns.
C9_DestroyThenLock ==
    \A c \in Cores : (c \in bk_owner /\ stack[c] # <<>>) =>
        /\ TopStep(c) \in {"link", "end"}
        /\ slots[Top(c).id].kind # "item"
\* a nested forget holds the lock to link its slot
C9_Witness ==
    \E c \in Cores :
        /\ c \in bk_owner /\ Len(stack[c]) = 2 /\ TopStep(c) = "link"
        /\ slots[stack[c][1].id].kind = "dropped"

\* C10: a core inside forget never waits for the bookkeeping lock while it
\* owns it, and the drop of the last handle to an item whose payload owns the
\* last handle to another item runs to completion with both slots on the
\* free list.
C10_NoSelfSpin ==
    \A c \in Cores : (stack[c] # <<>> /\ TopStep(c) = "lock") => c \notin bk_owner
C10_NestedDropTerminates ==
    /\ []C10_NoSelfSpin
    /\ \A i \in SlotIds, p \in SlotIds :
          (Len(stack[Solo]) = 2 /\ stack[Solo][1].id = i /\ stack[Solo][2].id = p)
              ~> (stack[Solo] = <<>> /\ {i, p} \subseteq FreeIds)
\* the nested drop has linked the parent's slot and is about to return
C10_Witness ==
    /\ Len(stack[Solo]) = 2 /\ TopStep(Solo) = "end"
    /\ slots[stack[Solo][2].id].kind = "next_free"
    /\ slots[stack[Solo][1].id].kind = "dropped"

\* C11: the slots counted by total_count lie inside the pages counted by
\* total_page_count, and every counted page is mapped:
\* total_count * slot_size <= total_page_count * 4096.
C11_SlotsInsideMappedPages ==
    /\ bk.total_count * slot_size <= bk.total_page_count * PageSize
    /\ bk.total_page_count = mapped_pages
\* two slots exist and the second one ends beyond the first page
C11_Witness ==
    /\ bk.total_count = 2
    /\ 2 * slot_size > PageSize
    /\ \A c \in Cores : Idle(c)

\* the smallest number of 4 KiB pages that covers `bytes` bytes
CeilPages(bytes) == (bytes + PageSize - 1) \div PageSize

\* C12: after every successful insert total_page_count is the smallest number
\* of 4 KiB pages that covers total_count * slot_size bytes.
C12_Minimal ==
    \A c \in Cores : (InsertStep(c) /\ op'[c].ok) =>
        bk'.total_page_count = CeilPages(bk'.total_count * slot_size)
C12_OnePagePerBoundary == [][C12_Minimal]_vars

\* C13: no step decreases total_count, total_page_count or the number of
\* mapped pages.
C13_Monotone ==
    /\ bk'.total_count >= bk.total_count
    /\ bk'.total_page_count >= bk.total_page_count
    /\ mapped_pages' >= mapped_pages
C13_NeverShrinks == [][C13_Monotone]_vars
\* slots of a grown registry have been dropped and wait on the free list
C13_Witness ==
    /\ bk.total_count = 2 /\ bk.total_page_count >= 2
    /\ bk.last_free_id # NoFree
    /\ slots[bk.last_free_id].next_free # NoFree

\* C14: every lock has at most one owner, its flag is set exactly while it has
\* one, the flag is set only in a step in which a core becomes the owner of a
\* lock whose flag was clear, and cleared only in a step in which the owner
\* releases its guard.
C14_OneOwner ==
    \A l \in Locks : /\ Cardinality(Owners(l)) <= 1
                     /\ owned[l] <=> Owners(l) # {}
C14_FlagSteps ==
    \A l \in Locks :
        /\ (~owned[l] /\ owned'[l]) => \E c \in Cores : Owners(l)' = {c} /\ Owners(l) = {}
        /\ (owned[l] /\ ~owned'[l]) =>
               \E c \in Cores : Owners(l) = {c} /\ lpc'[c].at = "drop_restore"
C14_MutualExclusion == []C14_OneOwner /\ [][C14_FlagSteps]_vars
\* one core owns a lock while another spins on it
C14_Witness ==
    \E c, d \in Cores, l \in Locks :
        /\ c # d /\ Owners(l) = {c}
        /\ lpc[d].at = "lock_spin" /\ lpc[d].lock = l

\* C15: a core that owns a lock has its interrupts disabled.
C15_OwnerHasInterruptsOff ==
    \A c \in Cores : (\E l \in Locks : c \in Owners(l)) => ~int_enabled[c]

\* C16: the release of a guard leaves the core's interrupt-enable flag at the
\* value it had when the matching lock or try_lock call was entered.
C16_Restore ==
    \A c \in Cores : (lpc[c].at = "drop_restore" /\ lpc'[c].at = "idle") =>
        int_enabled'[c] = lpc[c].before
C16_RestoresPriorState == [][C16_Restore]_vars
\* a core that took two locks nested is releasing the inner one, which found
\* interrupts disabled, and still holds the outer one, which found them enabled
C16_Witness ==
    \E c \in Cores :
        /\ lpc[c].at = "drop_restore" /\ ~lpc[c].before
        /\ Len(guards[c]) = 1 /\ guards[c][1].before
        /\ guards[c][1].lock # lpc[c].lock

\* C17: whenever no list operation is in progress, the forward chain from
\* first has exactly count nodes; when the list is not empty first.prev is
\* None, last.next is None and the last node of the chain is last.
C17_Linkage ==
    LET chain == Walk(list.first, "Forward", MaxNodes + 1)
    IN  /\ Len(chain) = list.count
        /\ list.count > 0 =>
              /\ nodes[list.first].prev = NoNode
              /\ list.last # NoNode
              /\ nodes[list.last].next = NoNode
              /\ chain[list.count] = list.last
\* three handles were appended and one node was deleted
C17_Witness ==
    /\ list.count = 2
    /\ \E n \in NodeIds : nodes[n].live /\ ~nodes[n].in_list

\* C18: a forward iteration started on the list's first yields the nodes
\* still in the list in the order of their append.
C18_ForwardYieldsAppendOrder ==
    (IterDone /\ it.direction = "Forward" /\ it.start = list.first) => it.out = order

\* C19: insert_after(item, new) puts the new node between item and item's
\* former next in both directions, and in every state a.next = b exactly when
\* b.prev = a.
C19_Between ==
    \A item \in NodeIds, h \in HandleIds : InsertAfter(item, h) =>
        LET n == nodes'[item].next
            former == nodes[item].next
        IN  /\ nodes'[n].prev = item
            /\ nodes'[n].next = former
            /\ former # NoNode => nodes'[former].prev = n
C19_Symmetric ==
    \A a, b \in NodeIds : (nodes[a].live /\ nodes[b].live) =>
        (nodes[a].next = b <=> nodes[b].prev = a)
C19_InsertAfterLinksBothWays == []C19_Symmetric /\ [][C19_Between]_vars

\* C20: an iteration yields the item it was started on and then the nodes
\* along the next links (iter_forward) or the prev links (iter_backward) up
\* to the node that has none; started on None it yields nothing.
C20_IterStartsAtItem ==
    IterDone => it.out = Walk(it.start, it.direction, MaxNodes)

\* the first item of the chain n belongs to: the one reached along prev links
\* that has no prev
ChainFirst(n) == IterLast(Walk(n, "Backward", MaxNodes))

\* C21: iter_all, called on any item of a chain, yields every item of the
\* chain once in forward order, beginning with the item that has no prev;
\* called on None it yields nothing.
C21_IterAllYieldsWholeChain ==
    IterDone => it.out = Walk(ChainFirst(it.start), "Forward", MaxNodes)

\* the nodes reached from n in one or more steps along next (or prev) links
Reached(n, direction) ==
    LET w == Walk(n, direction, MaxNodes + 1)
    IN  {w[k] : k \in 2..Len(w)}

\* C22: no node is reachable from itself along next links or along prev
\* links, and an iteration yields no node twice, so that it has ended after
\* at most as many steps as there are nodes.
C22_NoSelfReach ==
    \A n \in NodeIds : nodes[n].live =>
        (n \notin Reached(n, "Forward") /\ n \notin Reached(n, "Backward"))
C22_IterationBounded ==
    /\ Len(it.out) <= Cardinality({n \in NodeIds : nodes[n].live})
    /\ \A j, k \in 1..Len(it.out) : it.out[j] = it.out[k] => j = k
C22_NoLoops == C22_NoSelfReach /\ C22_IterationBounded
\* a node was linked with insert_after, another was deleted from the list,
\* and an iteration over the nodes has ended
C22_Witness ==
    /\ IterDone /\ Len(it.out) >= 1
    /\ \E n \in NodeIds : nodes[n].live /\ ~nodes[n].in_list /\ nodes[n].prev # NoNode
    /\ \E n \in NodeIds : /\ nodes[n].live /\ ~nodes[n].in_list
                          /\ nodes[n].prev = NoNode /\ nodes[n].next = NoNode

\* the position of node n in the append order
OrderIndex(n) == CHOOSE k \in 1..Len(order) : order[k] = n

\* C23: a delete of a node of the list decrements count by one, links the
\* node's former neighbours (the nodes appended just before and just after it
\* that are still in the list) to each other, moves first / last when the
\* node was at a boundary, and leaves the node with list, prev and next
\* cleared; the delete of the only member leaves first = last = None and
\* count = 0.
C23_Delete ==
    \A n \in NodeIds : ItemDelete(n) =>
        LET k == OrderIndex(n)
            before == IF k > 1 THEN order[k - 1] ELSE NoNode
            after == IF k < Len(order) THEN order[k + 1] ELSE NoNode
        IN  /\ list'.count = list.count - 1
            /\ before # NoNode => nodes'[before].next = after
            /\ after # NoNode => nodes'[after].prev = before
            /\ list'.first = (IF before = NoNode THEN after ELSE list.first)
            /\ list'.last = (IF after = NoNode THEN before ELSE list.last)
            /\ ~nodes'[n].in_list
            /\ nodes'[n].prev = NoNode /\ nodes'[n].next = NoNode
            /\ list.count = 1 =>
                  list' = [first |-> NoNode, last |-> NoNode, count |-> 0]
C23_DeleteUnlinks == [][C23_Delete]_vars
\* every node was appended and then deleted, the last of them as the only
\* member of the list
C23_Witness ==
    /\ list = [first |-> NoNode, last |-> NoNode, count |-> 0]
    /\ \A n \in NodeIds : nodes[n].live /\ ~nodes[n].in_list

\* the registry state a get may change: everything but the bookkeeping lock
\* and the locals of the cores
RegistryState == <<bk, slots, seg_pages, slot_size, mapped_pages, pfa_free, held, stack>>

\* C24: get(id) takes the None path when id >= total_count or the count it
\* loads is zero, and that path leaves the registry unchanged; otherwise it
\* adds exactly one to the count of slot id, hands out one Handle to id and
\* changes nothing else.
C24_Decides ==
    \A c \in Cores, id \in 0..MaxSlots : GetLock(c, id) =>
        /\ pc'[c] = (IF id >= bk.total_count THEN "get_none"
                     ELSE IF slots[id].user_count = 0 THEN "get_none"
                     ELSE "get_inc")
        /\ op'[c].id = id
        /\ RegistryState' = RegistryState
C24_None ==
    \A c \in Cores : (pc[c] = "get_none" /\ pc'[c] = "idle") => RegistryState' = RegistryState
C24_Some ==
    \A c \in Cores : (pc[c] = "get_inc" /\ pc'[c] = "idle") =>
        /\ op[c].id < bk.total_count
        /\ slots' = [slots EXCEPT ![op[c].id].user_count = @ + 1]
        /\ held' = [held EXCEPT ![op[c].id] = @ + 1]
        /\ <<bk, seg_pages, slot_size, mapped_pages, pfa_free, stack>>' =
               <<bk, seg_pages, slot_size, mapped_pages, pfa_free, stack>>
C24_GetContract == [][C24_Decides /\ C24_None /\ C24_Some]_vars
\* a get of a slot with one handle is about to return a second one, while
\* another slot below total_count has a count of zero
C24_Witness ==
    \E c \in Cores, j \in SlotIds :
        /\ pc[c] = "get_inc"
        /\ slots[op[c].id].user_count = 1 /\ held[op[c].id] = 1
        /\ j < bk.total_count /\ slots[j].user_count = 0

\* C25: whenever every core is outside insert, get and drop, a slot below
\* total_count is linked in the free list exactly when its reference count is
\* zero, and no slot is both occupied and linked in the free list.
C25_FreeIffZero ==
    (\A c \in Cores : Idle(c)) =>
        \A id \in SlotIds : id < bk.total_count =>
            /\ id \in FreeIds <=> slots[id].user_count = 0
            /\ ~(slots[id].user_count > 0 /\ slots[id].kind = "item" /\ id \in FreeIds)

\* the step in which core c returns from Registry::new
NewStep(c) == pc[c] = "no_registry" /\ pc'[c] # "no_registry"

\* C26: new on a populated segment returns MapError::Exists and yields no
\* registry; on an unpopulated segment it yields a registry with
\* total_count = 0, total_page_count = 0 and last_free_id = usize::MAX.
C26_New ==
    \A c \in Cores : NewStep(c) =>
        IF mapped_pages > 0
        THEN /\ pc'[c] = "new_err" /\ ~op'[c].ok /\ op'[c].err = "Exists"
             /\ \A d \in Cores : d # c => pc'[d] = "no_registry"
        ELSE /\ \A d \in Cores : pc'[d] = "idle"
             /\ bk'.total_count = 0 /\ bk'.total_page_count = 0
             /\ bk'.last_free_id = NoFree
             /\ FreeIds' = {}
C26_NoUseWithoutRegistry ==
    (\E c \in Cores : pc[c] \in {"no_registry", "new_err"}) =>
        /\ \A c \in Cores : pc[c] \in {"no_registry", "new_err"} /\ stack[c] = <<>>
        /\ \A id \in SlotIds : held[id] = 0 /\ slots[id] = UninitFrame
C26_NewOnceEmpty == []C26_NoUseWithoutRegistry /\ [][C26_New]_vars
\* new has failed on a populated segment whose bookkeeping memory held stale
\* values
C26_Witness ==
    \E c \in Cores :
        /\ pc[c] = "new_err" /\ op[c].err = "Exists"
        /\ mapped_pages > 0 /\ bk # RegistryBookkeepingNew

\* C27: the slot created by insert_permanent keeps a reference count of at
\* least one and a live payload, is never being destroyed, is never linked in
\* the free list, and its id is never returned by a later insert, whatever
\* get, clone and drop do with handles to it.
C27_Valid ==
    bk.total_count > 0 =>
        /\ slots[PermanentId].user_count >= 1
        /\ slots[PermanentId].kind = "item"
        /\ PermanentId \notin FreeIds
        /\ \A c \in Cores : \A k \in 1..Len(stack[c]) : stack[c][k].id # PermanentId
C27_NotReissued ==
    \A c \in Cores : (InsertStep(c) /\ bk.total_count > 0 /\ op'[c].ok) =>
        op'[c].id # PermanentId
C27_PermanentStaysValid == []C27_Valid /\ [][C27_NotReissued]_vars
\* the last of the handles obtained for the permanent slot has been dropped
\* while another slot waits on the free list
C27_Witness ==
    /\ \A c \in Cores : Idle(c)
    /\ bk.total_count = 2 /\ bk.last_free_id = 1
    /\ held[PermanentId] = 0 /\ slots[PermanentId].user_count = 1

\* the waiter is in the loop of lock()
WaiterSpins == lpc[Waiter].at = "lock_spin" /\ lpc[Waiter].lock = Contended

WellFormed(s) ==
    Len(s) = IdLen /\ s[2] = 45 /\ \A k \in 3..IdLen : DecodeValue(s[k]) # -1

\* malformed in any way: Malformed, from either from_str
C29_Malformed ==
    parsed.result # "none" /\ ~WellFormed(parsed.s) => parsed.result = "Malformed"
\* well-formed, of no type: InvalidType from AnyId::from_str
C29_AnyIdInvalidType ==
    /\ parsed.target = "AnyId" /\ parsed.result # "none"
    /\ WellFormed(parsed.s)
    /\ TryFromBchar(parsed.s[1]) = "None"
    => parsed.result = "InvalidType"
\* well-formed, of another type than TY: InvalidType from Id::<TY>::from_str
C29_IdUnexpectedType ==
    /\ parsed.target \in IdTypes /\ parsed.result # "none"
    /\ WellFormed(parsed.s)
    /\ TryFromBchar(parsed.s[1]) \in IdTypes \ {parsed.target}
    => parsed.result = "InvalidType"

\* C29: from_str reports the two errors as documented. A string that is
\* malformed (wrong length, no hyphen, a value byte outside the alphabet)
\* gives Malformed from AnyId::from_str and from Id::from_str; a well-formed
\* string whose type byte names no type gives InvalidType from
\* AnyId::from_str; a well-formed string of a valid type other than TY
\* gives InvalidType from Id::<TY>::from_str.
C29_DocumentedErrors == C29_Malformed /\ C29_AnyIdInvalidType /\ C29_IdUnexpectedType

\* an insert that takes the head of the free list
ReuseStep(c) == InsertStep(c) /\ ~FreeListEmpty

C30_Reuse ==
    \A c \in Cores :
        ReuseStep(c) =>
            /\ slots[bk.last_free_id].user_count = 0
            /\ LiveHandles(bk.last_free_id) = 0
            /\ "insert_reuse" \notin asserts'

\* C30: whenever insert takes a slot from the free list, under every
\* interleaving of insert, get, clone and drop, the slot's reference count is
\* zero immediately before insert increments it: the debug assertion of the
\* reuse path does not fail, and no handle to the slot exists.
C30_ReusedSlotIsFree == [][C30_Reuse]_vars

\* the push of forget_item_at onto the free list, by core c
LinkStep(c) ==
    IF stack[c] = <<>> THEN FALSE
    ELSE TopStep(c) = "link" /\ stack'[c] # stack[c]

C31_NoUnderflow ==
    /\ \A i \in SlotIds : slots[i].user_count >= 0
    /\ "forget" \notin asserts
C31_PushOnce ==
    \A c \in Cores : LinkStep(c) => Top(c).id \notin FreeIds

\* C31: under every interleaving of insert, get, clone and drop no drop
\* decrements a reference count that is zero: no count goes below zero, the
\* debug assertion of forget_item_at does not fail, and no slot that is on
\* the free list is pushed onto it again.
C31_NoDropBelowZero == []C31_NoUnderflow /\ [][C31_PushOnce]_vars

\* the forget_item_at activations that are freeing slot id
Freeing(id) ==
    {<<c, k>> \in Cores \X (1..MaxSlots) : k <= Len(stack[c]) /\ stack[c][k].id = id}

C32_NotEarly ==
    \A id \in SlotIds :
        /\ LiveHandles(id) >= 1 =>
               slots[id].kind = "item" /\ Freeing(id) = {} /\ TimesFree(id) = 0
        /\ Cardinality(Freeing(id)) <= 1
        /\ TimesFree(id) <= 1
C32_LastDrop ==
    \A c \in Cores :
        /\ \A id \in SlotIds :
              (Drop(c, id) /\ stack'[c] # stack[c]) => LiveHandles(id) = 1
        /\ (IF stack[c] = <<>> THEN FALSE
            ELSE TopStep(c) = "destroy" /\ stack'[c] # stack[c])
           => slots[Top(c).id].kind = "item" /\ LiveHandles(Top(c).id) = 0
C32_AllDropped ==
    \A id \in SlotIds :
        (slots[id].kind # "uninit" /\ LiveHandles(id) = 0 /\ Freeing(id) = {})
        => TimesFree(id) = 1

\* C32: with handles to one slot cloned and dropped on several cores the slot
\* is not freed early: while a handle exists the payload lives and the slot is
\* neither being freed nor on the free list; the payload is destroyed once, by
\* the drop that removes the last handle; and once all handles are dropped
\* and that drop has returned, the slot is on the free list exactly once.
C32_CloneDropFreesOnce == []C32_NotEarly /\ []C32_AllDropped /\ [][C32_LastDrop]_vars

\* a slot has been cloned up to MaxHeld handles while a core is in the middle
\* of freeing another slot
C32_Witness ==
    \E id \in SlotIds :
        /\ held[id] = MaxHeld /\ slots[id].user_count = MaxHeld
        /\ \E c \in Cores : stack[c] # <<>> /\ Top(c).id # id

C33_Insert ==
    \A c \in Cores :
        (InsertStep(c) /\ op'[c].ok) =>
            LET id == op'[c].id
            IN  /\ LiveHandles(id) = 0
                /\ slots'[id].kind = "item"
                /\ slots'[id].parent = op'[c].parent
                /\ slots'[id].user_count = 1
C33_Kept ==
    \A id \in SlotIds :
        (LiveHandles(id) >= 1 /\ LiveHandles(id)' >= 1) =>
            slots'[id].kind = "item" /\ slots'[id].parent = slots[id].parent

\* C33: under every interleaving of inserts, clones and drops, an insert
\* returns an id to which no handle exists, so handles of different inserts
\* that are live together have different ids; the slot then holds the item
\* that insert was given, and holds it unchanged as long as a handle to the
\* slot exists.
C33_OwnSlotOwnItem == [][C33_Insert /\ C33_Kept]_vars

\* handles of two inserts are live together, the second item owning a handle
\* to the first
C33_Witness ==
    \E id, other \in SlotIds :
        /\ id # other
        /\ held[id] >= 1 /\ held[other] >= 1
        /\ slots[other].kind = "item" /\ slots[other].parent = {id}

C34_Acquire ==
    \A c \in Cores, l \in DOMAIN lock_owner :
        (lock_owner[l] # c /\ lock_owner'[l] = c) =>
            IF l = PfaLock THEN HeldLocks(c) \cap Registries # {}
            ELSE HeldLocks(c) = {}
C34_NoCycle ==
    ~ \E S \in (SUBSET Cores) \ {{}} :
          \A c \in S : WaitsFor(c) # NoLock /\ lock_owner[WaitsFor(c)] \in S

\* C34: on registries that share one page-frame allocator, a core takes the
\* allocator's lock only while it holds a bookkeeping lock, and takes a
\* bookkeeping lock only while it holds no lock at all, also when a failed
\* insert drops the rejected item and the Handles it owns; in no reachable
\* state does every core of some set wait for a lock that a core of the set
\* holds.
C34_LockOrder == []C34_NoCycle /\ [][C34_Acquire]_vars

\* a core holds a bookkeeping lock and the allocator's lock while another
\* core, holding the other bookkeeping lock, waits for the allocator
C34_Witness ==
    \E c, d \in Cores :
        /\ c # d
        /\ call[c].at = "growing" /\ lock_owner[PfaLock] = c
        /\ call[d].at = "pfa_wait" /\ HeldLocks(d) # {}

\* C35: whenever the bookkeeping lock is free, the chain from last_free_id
\* through the next_free links is finite and ends at the sentinel, visits no
\* slot twice, and holds only ids below total_count whose reference count is
\* zero.
C35_FreeChainWellFormed ==
    bk_owner = {} =>
        /\ Len(FreeSeq) <= MaxSlots
        /\ \A k, j \in 1..Len(FreeSeq) : k # j => FreeSeq[k] # FreeSeq[j]
        /\ \A k \in 1..Len(FreeSeq) :
              /\ FreeSeq[k] \in SlotIds
              /\ FreeSeq[k] < bk.total_count
              /\ slots[FreeSeq[k]].user_count = 0

\* C36: once every Handle that callers hold to the nodes of a chain has been
\* dropped, no node slot is occupied any more, and so no wrapped item is kept
\* by a node: a chain nothing outside refers to is returned to the free
\* lists.
C36_AbandonedChainFreed ==
    (\A n \in NodeIds : nodes[n].held = 0) => (\A n \in NodeIds : ~nodes[n].live)

C37_Counted == bk.total_page_count = mapped_pages
C37_Resume ==
    \A c \in Cores : InsertStep(c) =>
        /\ op'[c].err # "Exists"
        /\ mapped_pages' - mapped_pages = bk'.total_page_count - bk.total_page_count

\* C37: total_page_count is the number of mapped pages of the segment in
\* every state, also after an insert that failed part-way through growth; an
\* insert maps exactly the pages it adds to total_page_count, starting at the
\* first unmapped one, and no mapping finds its page mapped already.
C37_PagesMappedOnce == []C37_Counted /\ [][C37_Resume]_vars

\* an insert into the empty registry has failed after it had mapped pages
C37_Witness ==
    \E c \in Cores :
        /\ pc[c] = "ins_ret" /\ ~op[c].ok
        /\ bk.total_count = 0 /\ bk.total_page_count > 0
        /\ bk.total_page_count = mapped_pages

C38_OkMeansStored ==
    (kernel.call.at = "return" /\ kernel.call.result = "Ok") =>
        /\ kernel.rings[kernel.call.ring].stored
        /\ kernel.rings[kernel.call.ring].id = kernel.call.ring
        /\ \E k \in 1..Len(kernel.list) : kernel.list[k] = kernel.call.ring
C38_FailureIsReturned ==
    (kernel.call.at = "return" /\ kernel.call.failed # {}) =>
        kernel.call.result = "OutOfMemory"

\* C38: create_ring returns Ok(ring) only when the ring is stored in the
\* ring registry with its id field equal to its slot id and is a member of
\* the rings list; when the allocation of the instance list, of the ring slot
\* or of the list node fails for lack of memory, it returns that error.
C38_CreateRingAllOrError == C38_OkMeansStored /\ C38_FailureIsReturned

\* a call of insert by core c that finds the free list empty and succeeds
FreshInsert(c) ==
    /\ pc[c] = "idle"
    /\ pc'[c] = "ins_ret"
    /\ FreeListEmpty
    /\ op'[c].ok
C39_Insert ==
    \A c \in Cores :
        FreshInsert(c) => /\ op'[c].id = bk.total_count
                          /\ bk'.total_count = bk.total_count + 1
C39_FirstIsZero ==
    \A c \in Cores :
        (FreshInsert(c) /\ \A id \in SlotIds : slots[id].kind = "uninit") => op'[c].id = 0
C39_Dense == \A id \in SlotIds : slots[id].kind # "uninit" <=> id < bk.total_count

\* C39: an insert that finds the free list empty and succeeds returns the
\* value total_count had before the call and increases total_count by one;
\* the ids handed out so far are exactly 0 .. total_count - 1, and the first
\* insert into a fresh registry (the root ring's) returns id 0.
C39_IdsInOrder == []C39_Dense /\ [][C39_Insert /\ C39_FirstIsZero]_vars

\* the last slot of the registry has just been handed out by growth, after
\* every id below it
C39_Witness ==
    /\ bk.total_count = MaxSlots
    /\ \E c \in Cores : pc[c] = "ins_ret" /\ op[c].ok /\ op[c].id = MaxSlots - 1
    /\ \A id \in SlotIds : slots[id].kind = "item"

\* the first step of a release by core c: the flag is cleared, the guard is
\* gone, the interrupt state is as it was
C40_Store ==
    \A c \in Cores : (lpc[c].at = "idle" /\ lpc'[c].at = "drop_restore") =>
        /\ ~owned'[lpc'[c].lock]
        /\ \A k \in 1..Len(guards'[c]) : guards'[c][k].lock # lpc'[c].lock
        /\ int_enabled'[c] = int_enabled[c]
\* interrupts are re-enabled on a core only by the second step of a release,
\* when the core no longer owns the released lock
C40_Reenable ==
    \A c \in Cores : (~int_enabled[c] /\ int_enabled'[c]) =>
        /\ lpc[c].at = "drop_restore"
        /\ c \notin Owners(lpc[c].lock)
C40_Released ==
    \A c \in Cores : lpc[c].at = "drop_restore" => c \notin Owners(lpc[c].lock)

\* C40: a release clears the lock's owned flag in its first step and restores
\* the interrupt state in its second: between the two the releasing core does
\* not own the lock, and interrupts are re-enabled on a core only by that
\* second step, so never while the core owns the lock it is releasing.
C40_StoreBeforeRestore == []C40_Released /\ [][C40_Store /\ C40_Reenable]_vars

\* a core is between the two steps of a release that will re-enable its
\* interrupts, and another core has already taken the released lock
C40_Witness ==
    \E c, d \in Cores :
        /\ c # d
        /\ lpc[c].at = "drop_restore" /\ lpc[c].interrupt_state /\ ~int_enabled[c]
        /\ d \in Owners(lpc[c].lock)

====
